---- MODULE Spec2Model ----
(***************************************************************************)
(* MatchScreener: the dataset cache (api/analytics.py load_dataset), the   *)
(* multi-source merger (api/fetch_football_data.py) and the analytics      *)
(* engines (api/analytics.py) as state machines.                           *)
(*                                                                         *)
(* Conventions.  A Python Optional value is None (the empty tuple) or      *)
(* Some(v) (a one-element tuple).  A float column cell is a natural number *)
(* or NaN.  A rate is None or the pair <<count, denominator>>; a mean is   *)
(* the pair <<sum, count>> over the non-missing cells (count 0 is the NaN  *)
(* that pandas' mean() gives).                                             *)
(***************************************************************************)
EXTENDS Integers, Sequences, FiniteSets, TLC

VARIABLES
    \* ---- dataset cache -------------------------------------------------
    files,      \* the file system: path -> [status, mtime, content]
    clock,      \* the file system clock that stamps modification times
    cache,      \* the module global _DATASET: [df, mtime]
    pc,         \* per thread: where it is inside load_dataset
    lpath,      \* per thread: the data_path argument
    lst,        \* per thread: st.st_mtime read by os.stat
    ldf,        \* per thread: the local df read by pd.read_parquet
    ret,        \* per thread: what the call returned
    \* ---- merger --------------------------------------------------------
    feeds,      \* the five normalized feed tables
    mcall,      \* the last merger operation and its output table
    sheet,      \* the raw sheet handed to the feed loaders
    \* ---- analytics -----------------------------------------------------
    ds,         \* the dataset handed to the analytics functions
    call,       \* the last analytics call: its arguments and its result
    \* ---- match insight API ---------------------------------------------
    _INSIGHTS_CACHE,    \* the module global of app.py: key -> cached response
    environ,    \* os.environ.get("INSIGHTS_DEBUG_EXAMPLES"): None or the value
    req         \* per request in flight: where it is and its locals

vars == <<files, clock, cache, pc, lpath, lst, ldf, ret, feeds, mcall, sheet, ds, call,
          _INSIGHTS_CACHE, environ, req>>

cacheVars == <<files, clock, cache, pc, lpath, lst, ldf, ret>>
mergeVars == <<feeds, mcall, sheet>>
toggleVars == <<environ, req>>
statVars  == <<ds, call, _INSIGHTS_CACHE, toggleVars>>

None == <<>>
Some(x) == <<x>>

NaN == -1

IsNaN(x) == x = NaN

(***************************************************************************)
(* Dataset cache: api/analytics.py, DatasetCache and load_dataset.         *)
(***************************************************************************)
NumThreads == 2
MaxClock == 2

Threads == 1..NumThreads
Paths == {"p1", "p2"}
Contents == {"X", "Y"}

\* pd.DataFrame(): the explicit empty dataset
EmptyDf == "empty"

\* what os.stat / pd.read_parquet meet at a path
\*   ok       a readable parquet file
\*   missing  no such file: os.stat raises FileNotFoundError
\*   noaccess os.stat raises another OSError (PermissionError, NotADirectoryError)
\*   corrupt  os.stat succeeds, pd.read_parquet raises
FileStatus == {"ok", "missing", "noaccess", "corrupt"}

DatasetCache == [df |-> None, mtime |-> None]

AllIdle == \A t \in Threads : pc[t] = "idle"

InitCache ==
    /\ files = [p \in Paths |-> [status |-> "missing", mtime |-> 0, content |-> "X"]]
    /\ clock = 1
    /\ cache = DatasetCache
    /\ pc = [t \in Threads |-> "idle"]
    /\ lpath = [t \in Threads |-> "p1"]
    /\ lst = [t \in Threads |-> 0]
    /\ ldf = [t \in Threads |-> None]
    /\ ret = [t \in Threads |-> None]

\* ---- the environment: the out-of-band refresh and the file system --------
Tick ==
    /\ clock < MaxClock
    /\ clock' = clock + 1
    /\ UNCHANGED <<files, cache, pc, lpath, lst, ldf, ret>>
    /\ UNCHANGED <<mergeVars, statVars>>

\* The out-of-band refresh (or anything else) writes the file: parquet bytes of
\* dataset c (s = "ok") or bytes that do not parse (s = "corrupt").  The write
\* stamps the file with the clock and always changes its modification time.
Rewrite(p, c, s) ==
    /\ files[p].mtime # clock
    /\ files' = [files EXCEPT ![p] = [status |-> s, mtime |-> clock, content |-> c]]
    /\ UNCHANGED <<clock, cache, pc, lpath, lst, ldf, ret>>
    /\ UNCHANGED <<mergeVars, statVars>>

\* The file is removed, or its directory loses search permission.
Damage(p, s) ==
    /\ files[p].status # s
    /\ files' = [files EXCEPT ![p].status = s]
    /\ UNCHANGED <<clock, cache, pc, lpath, lst, ldf, ret>>
    /\ UNCHANGED <<mergeVars, statVars>>

\* ---- load_dataset, one step per statement --------------------------------
\* def load_dataset(data_path)
LoadCall(t, p) ==
    /\ pc[t] = "idle"
    /\ pc' = [pc EXCEPT ![t] = "stat"]
    /\ lpath' = [lpath EXCEPT ![t] = p]
    /\ UNCHANGED <<files, clock, cache, lst, ldf, ret>>
    /\ UNCHANGED <<mergeVars, statVars>>

\* try: st = os.stat(data_path)  except FileNotFoundError: return pd.DataFrame()
LoadStat(t) ==
    /\ pc[t] = "stat"
    /\ LET f == files[lpath[t]] IN
       CASE f.status = "missing" ->
                /\ ret' = [ret EXCEPT ![t] = Some(EmptyDf)]
                /\ pc' = [pc EXCEPT ![t] = "done"]
                /\ UNCHANGED lst
         [] f.status = "noaccess" ->
                \* an OSError that is no FileNotFoundError leaves the function
                /\ pc' = [pc EXCEPT ![t] = "raised"]
                /\ UNCHANGED <<ret, lst>>
         [] OTHER ->
                /\ lst' = [lst EXCEPT ![t] = f.mtime]
                /\ pc' = [pc EXCEPT ![t] = "check"]
                /\ UNCHANGED ret
    /\ UNCHANGED <<files, clock, cache, lpath, ldf>>
    /\ UNCHANGED <<mergeVars, statVars>>

\* the freshness test of line 28
CacheFresh(c, mtime) == c.df # None /\ c.mtime = Some(mtime)

\* if _DATASET.df is not None and _DATASET.mtime == st.st_mtime: return _DATASET.df
LoadCheck(t) ==
    /\ pc[t] = "check"
    /\ IF CacheFresh(cache, lst[t])
       THEN /\ ret' = [ret EXCEPT ![t] = cache.df]
            /\ pc' = [pc EXCEPT ![t] = "done"]
       ELSE /\ pc' = [pc EXCEPT ![t] = "read"]
            /\ UNCHANGED ret
    /\ UNCHANGED <<files, clock, cache, lpath, lst, ldf>>
    /\ UNCHANGED <<mergeVars, statVars>>

\* try: df = pd.read_parquet(data_path)  except Exception: return pd.DataFrame()
LoadRead(t) ==
    /\ pc[t] = "read"
    /\ LET f == files[lpath[t]] IN
       IF f.status = "ok"
       THEN /\ ldf' = [ldf EXCEPT ![t] = Some(f.content)]
            /\ pc' = [pc EXCEPT ![t] = "store_df"]
            /\ UNCHANGED ret
       ELSE /\ ret' = [ret EXCEPT ![t] = Some(EmptyDf)]
            /\ pc' = [pc EXCEPT ![t] = "done"]
            /\ UNCHANGED ldf
    /\ UNCHANGED <<files, clock, cache, lpath, lst>>
    /\ UNCHANGED <<mergeVars, statVars>>

\* _DATASET.df = df
LoadStoreDf(t) ==
    /\ pc[t] = "store_df"
    /\ cache' = [cache EXCEPT !.df = ldf[t]]
    /\ pc' = [pc EXCEPT ![t] = "store_mtime"]
    /\ UNCHANGED <<files, clock, lpath, lst, ldf, ret>>
    /\ UNCHANGED <<mergeVars, statVars>>

\* _DATASET.mtime = st.st_mtime ; return df
LoadStoreMtime(t) ==
    /\ pc[t] = "store_mtime"
    /\ cache' = [cache EXCEPT !.mtime = Some(lst[t])]
    /\ ret' = [ret EXCEPT ![t] = ldf[t]]
    /\ pc' = [pc EXCEPT ![t] = "done"]
    /\ UNCHANGED <<files, clock, lpath, lst, ldf>>
    /\ UNCHANGED <<mergeVars, statVars>>

\* the caller takes the result (or the exception) and the thread is free again
LoadReturn(t) ==
    /\ pc[t] \in {"done", "raised"}
    /\ pc' = [pc EXCEPT ![t] = "idle"]
    /\ lpath' = [lpath EXCEPT ![t] = "p1"]
    /\ lst' = [lst EXCEPT ![t] = 0]
    /\ ldf' = [ldf EXCEPT ![t] = None]
    /\ ret' = [ret EXCEPT ![t] = None]
    /\ UNCHANGED <<files, clock, cache>>
    /\ UNCHANGED <<mergeVars, statVars>>

\* One call at a time, and the files change between calls only: a sequence of
\* load_dataset calls interleaved with out-of-band rewrites.
NextCache ==
    \/ AllIdle /\ Tick
    \/ \E p \in Paths, c \in Contents, s \in {"ok", "corrupt"} : AllIdle /\ Rewrite(p, c, s)
    \/ \E p \in Paths, s \in {"missing", "noaccess"} : AllIdle /\ Damage(p, s)
    \/ \E t \in Threads, p \in Paths : AllIdle /\ LoadCall(t, p)
    \/ \E t \in Threads : LoadStat(t)
    \/ \E t \in Threads : LoadCheck(t)
    \/ \E t \in Threads : LoadRead(t)
    \/ \E t \in Threads : LoadStoreDf(t)
    \/ \E t \in Threads : LoadStoreMtime(t)
    \/ \E t \in Threads : LoadReturn(t)

\* the dataset the refresh writes at a given time: successive refreshes write
\* different datasets
ContentAt(time) == IF time % 2 = 1 THEN "X" ELSE "Y"

\* Request handlers are plain functions, which the framework runs in worker
\* threads: the calls of load_dataset(DATA_PATH) overlap with each other and
\* with the refresh, statement by statement.
NextCacheConcurrent ==
    \/ Tick
    \/ Rewrite("p1", ContentAt(clock), "ok")
    \/ \E t \in Threads : LoadCall(t, "p1")
    \/ \E t \in Threads : LoadStat(t)
    \/ \E t \in Threads : LoadCheck(t)
    \/ \E t \in Threads : LoadRead(t)
    \/ \E t \in Threads : LoadStoreDf(t)
    \/ \E t \in Threads : LoadStoreMtime(t)
    \/ \E t \in Threads : LoadReturn(t)

(***************************************************************************)
(* Tables.  A DataFrame is the sequence of its rows, in index order.       *)
(***************************************************************************)
SeqToSet(s) == {s[i] : i \in 1..Len(s)}

RECURSIVE SelectBetween(_, _, _, _)
\* the rows of s at the positions lo..hi that are in idx, in order
SelectBetween(s, idx, lo, hi) ==
    IF lo > hi THEN <<>>
    ELSE IF lo = hi THEN (IF lo \in idx THEN <<s[lo]>> ELSE <<>>)
    ELSE LET mid == (lo + hi) \div 2
         IN SelectBetween(s, idx, lo, mid) \o SelectBetween(s, idx, mid + 1, hi)

\* df[mask]: the rows whose position is in idx, in order
SelectRows(s, idx) ==
    CHOOSE out \in { SelectBetween(t, keep, 1, Len(t)) : t \in {s}, keep \in {idx} } : TRUE

\* mutant: head() takes the rows from the other end
LastRows(s, n) == SubSeq(s, (IF n < Len(s) THEN Len(s) - n ELSE 0) + 1, Len(s))

\* df.head(n)
HeadRows(s, n) == SubSeq(s, 1, IF n < Len(s) THEN n ELSE Len(s))

\* the place of every pair in a stable ascending sort: behind the pairs with a
\* smaller key and the earlier pairs with the same key
PlaceByKey(s) ==
    [ i \in 1..Len(s) |->
        Cardinality({ j \in 1..Len(s) :
                        s[j][1] < s[i][1] \/ (s[j][1] = s[i][1] /\ j <= i) }) ] \o <<>>

\* a stable ascending sort of <<key, row>> pairs
SortPairs(s) ==
    CHOOSE out \in
        UNION { { [ k \in 1..Len(t) |-> t[CHOOSE i \in 1..Len(t) : place[i] = k] ] \o <<>> :
                    place \in {PlaceByKey(t)} } : t \in {s \o <<>>} } : TRUE

\* df.sort_values("date") / sort_values(by=["date"]): ascending, ties in index order
SortByDateAsc(s) ==
    LET sorted == SortPairs([i \in 1..Len(s) |-> <<s[i].date, s[i]>>])
    IN [i \in 1..Len(s) |-> sorted[i][2]]

\* df.sort_values("date", ascending=False): nargsort reverses, sorts and reverses
\* back, so ties stay in index order
SortByDateDesc(s) ==
    LET sorted == SortPairs([i \in 1..Len(s) |-> <<0 - s[i].date, s[i]>>])
    IN [i \in 1..Len(s) |-> sorted[i][2]]

(***************************************************************************)
(* Multi-source merger: api/fetch_football_data.py.                        *)
(***************************************************************************)
MaxFeedRows == 3

\* pd.to_datetime(..., errors="coerce") of a cell that is no date
NaT == 0

FeedNames == {"cur", "prev", "latest", "wseason", "wlatest"}
WorldFeeds == {"wseason", "wlatest"}

\* key_cols of dedupe_merge
KeyOf(r) == <<r.date, r.home_norm, r.away_norm, r.league_norm>>

\* the matches a feed row can report: two on the same day with venues swapped,
\* one on a later day
FeedMatches ==
    { [date |-> 1, home_norm |-> "a", away_norm |-> "b"],
      [date |-> 1, home_norm |-> "b", away_norm |-> "a"],
      [date |-> 2, home_norm |-> "a", away_norm |-> "b"] }

\* A feed table with the helper columns of load_and_normalize (Europe:
\* league_norm is Div lowered) or load_and_normalize_world (league_norm is
\* "country-league") computed and its dropna still to come.  A row reports a
\* match, FTHG being the part of the row the key does not cover, or it is a row
\* whose Date cell did not parse.  The team names of the model are canonical
\* keys already.
FeedRows(f) ==
    LET league == IF f \in WorldFeeds THEN "x-y" ELSE "e0" IN
    { [date |-> m.date, home_norm |-> m.home_norm, away_norm |-> m.away_norm,
       league_norm |-> league, FTHG |-> g] : m \in FeedMatches, g \in {0, 1} }
    \cup
    { [date |-> NaT, home_norm |-> "a", away_norm |-> "b",
       league_norm |-> league, FTHG |-> 0] }

TotalFeedRows(fs) ==
    Len(fs["cur"]) + Len(fs["prev"]) + Len(fs["latest"])
        + Len(fs["wseason"]) + Len(fs["wlatest"])

\* out.dropna(subset=["date", "HomeTeam", "AwayTeam"]): every row of the model
\* names both teams
DropNaCore(df) == SelectRows(df, { i \in 1..Len(df) : df[i].date # NaT })

\* combined.sort_values(by=["date", "_src"], ascending=[True, True]): a stable
\* lexsort; "base" sorts before "overlay"
SortByDateSrc(tagged) ==
    LET sorted == SortPairs([i \in 1..Len(tagged) |->
                      <<2 * tagged[i].row.date + tagged[i].src, tagged[i]>>])
    IN [i \in 1..Len(tagged) |-> sorted[i][2]]

\* mutant: keep="first"
DropDuplicatesKeepFirst(tagged) ==
    SelectRows(tagged, { i \in 1..Len(tagged) :
        \A j \in 1..(i - 1) : KeyOf(tagged[j].row) # KeyOf(tagged[i].row) })

\* combined.drop_duplicates(subset=key_cols, keep="last")
DropDuplicatesKeepLast(tagged) ==
    SelectRows(tagged, { i \in 1..Len(tagged) :
        \A j \in (i + 1)..Len(tagged) : KeyOf(tagged[j].row) # KeyOf(tagged[i].row) })

\* _src is 0 for "base" and 1 for "overlay"
dedupe_merge(base, overlay) ==
    LET combined == [i \in 1..Len(base) |-> [row |-> base[i], src |-> 0]]
                    \o [i \in 1..Len(overlay) |-> [row |-> overlay[i], src |-> 1]]
        deduped == DropDuplicatesKeepLast(SortByDateSrc(combined))
    IN [i \in 1..Len(deduped) |-> deduped[i].row]

\* df_season is the world season table with the seasons to keep already
\* selected (the selection leaves a non-empty table non-empty); df_latest is
\* the empty table when the download failed
fetch_world_season_dataset(df_season, df_latest) ==
    IF df_season = <<>> THEN <<>>
    ELSE LET season_normalized == DropNaCore(df_season)
             latest_normalized == DropNaCore(df_latest)
         IN IF season_normalized # <<>> /\ latest_normalized # <<>>
            THEN dedupe_merge(season_normalized, latest_normalized)
            ELSE IF season_normalized # <<>> THEN season_normalized
            ELSE latest_normalized

\* mutant: the whole table is de-duplicated before it is sorted
build_merged_dataset_dedup_all(fs) ==
    LET cur_n == DropNaCore(fs["cur"])
        prev_n == DropNaCore(fs["prev"])
        latest_n == DropNaCore(fs["latest"])
        world == fetch_world_season_dataset(fs["wseason"], fs["wlatest"])
    IN SortByDateAsc(dedupe_merge(<<>>, dedupe_merge(cur_n, latest_n) \o prev_n \o world))

build_merged_dataset(fs) ==
    LET cur_n == DropNaCore(fs["cur"])
        prev_n == DropNaCore(fs["prev"])
        latest_n == DropNaCore(fs["latest"])
        merged_cur == IF cur_n # <<>> THEN dedupe_merge(cur_n, latest_n) ELSE latest_n
        europe_merged == merged_cur \o prev_n
        world_merged == fetch_world_season_dataset(fs["wseason"], fs["wlatest"])
        all_merged == europe_merged \o world_merged
    IN SortByDateAsc(all_merged)

NoMergeCall == [op |-> "none", out |-> <<>>]

\* a sheet without columns and rows
EmptyFrame == [columns |-> <<>>, rows |-> <<>>]

InitMerge ==
    /\ feeds = [f \in FeedNames |-> <<>>]
    /\ mcall = NoMergeCall
    /\ sheet = EmptyFrame

\* a download delivers one more row of a feed
FeedRow(f, r) ==
    /\ mcall = NoMergeCall
    /\ TotalFeedRows(feeds) < MaxFeedRows
    /\ feeds' = [feeds EXCEPT ![f] = Append(@, r)]
    /\ UNCHANGED <<mcall, sheet>>
    /\ UNCHANGED <<cacheVars, statVars>>

\* dedupe_merge on the current-season table as base and the latest-results
\* table as overlay
DedupeMerge ==
    /\ mcall = NoMergeCall
    /\ mcall' = [op |-> "dedupe_merge",
                 out |-> dedupe_merge(DropNaCore(feeds["cur"]), DropNaCore(feeds["latest"]))]
    /\ UNCHANGED <<feeds, sheet>>
    /\ UNCHANGED <<cacheVars, statVars>>

BuildMergedDataset ==
    /\ mcall = NoMergeCall
    /\ mcall' = [op |-> "build_merged_dataset", out |-> build_merged_dataset(feeds)]
    /\ UNCHANGED <<feeds, sheet>>
    /\ UNCHANGED <<cacheVars, statVars>>

\* the caller has taken the table
MergeReturn ==
    /\ mcall # NoMergeCall
    /\ mcall' = NoMergeCall
    /\ UNCHANGED <<feeds, sheet>>
    /\ UNCHANGED <<cacheVars, statVars>>

NextMerge ==
    \/ \E f \in FeedNames : \E r \in FeedRows(f) : FeedRow(f, r)
    \/ DedupeMerge
    \/ BuildMergedDataset
    \/ MergeReturn

(***************************************************************************)
(* League names: src/matchscreener/league_map.py.                          *)
(***************************************************************************)
\* SLUG_TO_DIV in insertion order, each slug with its prettified form
\* slug.replace("-", " ").title()
SLUG_TO_DIV ==
    << <<"england-premier-league", "E0", "England Premier League">>,
       <<"england-championship", "E1", "England Championship">>,
       <<"england-league-1", "E2", "England League 1">>,
       <<"england-league-2", "E3", "England League 2">>,
       <<"england-national-league", "E4", "England National League">>,
       <<"scotland-premiership", "SC0", "Scotland Premiership">>,
       <<"scotland-championship", "SC1", "Scotland Championship">>,
       <<"scotland-league-one", "SC2", "Scotland League One">>,
       <<"scotland-league-two", "SC3", "Scotland League Two">>,
       <<"germany-bundesliga", "D1", "Germany Bundesliga">>,
       <<"germany-2-bundesliga", "D2", "Germany 2 Bundesliga">>,
       <<"italy-serie-a", "I1", "Italy Serie A">>,
       <<"italy-serie-b", "I2", "Italy Serie B">>,
       <<"spain-la-liga", "SP1", "Spain La Liga">>,
       <<"spain-la-liga-2", "SP2", "Spain La Liga 2">>,
       <<"france-ligue-1", "F1", "France Ligue 1">>,
       <<"france-ligue-2", "F2", "France Ligue 2">>,
       <<"netherlands-eredivisie", "N1", "Netherlands Eredivisie">>,
       <<"belgium-first-division-a", "B1", "Belgium First Division A">>,
       <<"portugal-primeira-liga", "P1", "Portugal Primeira Liga">>,
       <<"turkey-super-lig", "T1", "Turkey Super Lig">>,
       <<"greece-super-league", "G1", "Greece Super League">> >>

\* div_code is None or Some(code); "if not div_code" is also true of ""
Truthy(div_code) == div_code # None /\ div_code # Some("")

friendly_name_for_div(div_code) ==
    IF ~Truthy(div_code) THEN None
    ELSE LET hits == { i \in 1..Len(SLUG_TO_DIV) : SLUG_TO_DIV[i][2] = div_code[1] }
         IN IF hits = {} THEN div_code
            ELSE Some(SLUG_TO_DIV[CHOOSE i \in hits : \A j \in hits : i <= j][3])

(***************************************************************************)
(* Identity normalizer: api/fetch_football_data.py normalize_team_name and *)
(* api/team_map.py.  A string is the sequence of its atoms; an atom is one *)
(* character (a letter with a diacritic is written by its name, as         *)
(* "e_acute") or a run of lower-case letters that has no atom of its own.  *)
(***************************************************************************)
\* str.lower() on the capitals of the names
LowerAtom(c) ==
    IF c = "F" THEN "f"
    ELSE IF c = "C" THEN "c"
    ELSE IF c = "Man" THEN "man"
    ELSE IF c = "Utd" THEN "utd"
    ELSE IF c = "Manchester" THEN "manchester"
    ELSE IF c = "United" THEN "united"
    ELSE c

RECURSIVE StripLeft(_)
StripLeft(s) == IF s # <<>> /\ Head(s) = " " THEN StripLeft(Tail(s)) ELSE s

RECURSIVE StripRight(_)
StripRight(s) ==
    IF s # <<>> /\ s[Len(s)] = " " THEN StripRight(SubSeq(s, 1, Len(s) - 1)) ELSE s

\* s.lower().strip()
LowerStrip(s) == StripRight(StripLeft([i \in 1..Len(s) |-> LowerAtom(s[i])]))

\* the special-character table of normalize_team_name
DIACRITICS ==
    << <<"o_slash", <<"o">>>>, <<"a_ring", <<"a">>>>, <<"ae_lig", <<"a", "e">>>>,
       <<"o_uml", <<"o">>>>, <<"a_uml", <<"a">>>>, <<"u_uml", <<"u">>>>,
       <<"e_acute", <<"e">>>>, <<"e_grave", <<"e">>>>, <<"e_circ", <<"e">>>>,
       <<"e_uml", <<"e">>>>, <<"a_acute", <<"a">>>>, <<"a_grave", <<"a">>>>,
       <<"a_circ", <<"a">>>>, <<"a_tilde", <<"a">>>>, <<"i_acute", <<"i">>>>,
       <<"i_grave", <<"i">>>>, <<"i_circ", <<"i">>>>, <<"i_uml", <<"i">>>>,
       <<"o_acute", <<"o">>>>, <<"o_grave", <<"o">>>>, <<"o_circ", <<"o">>>>,
       <<"o_tilde", <<"o">>>>, <<"u_acute", <<"u">>>>, <<"u_grave", <<"u">>>>,
       <<"u_circ", <<"u">>>>, <<"c_cedilla", <<"c">>>>, <<"n_tilde", <<"n">>>> >>

\* the punctuation table of normalize_team_name
PUNCTUATION ==
    << <<"&", <<"a", "n", "d">>>>, <<"-", <<" ">>>>, <<"/", <<" ">>>>,
       <<"'", <<>>>>, <<".", <<>>>> >>

RECURSIVE ReplaceAll(_, _)
\* "for k, v in table.items(): s = s.replace(k, v)" for one-character keys
\* whose values hold no key of the table
ReplaceAll(s, table) ==
    IF s = <<>> THEN <<>>
    ELSE LET hits == { i \in 1..Len(table) : table[i][1] = Head(s) }
         IN (IF hits = {} THEN <<Head(s)>> ELSE table[CHOOSE i \in hits : TRUE][2])
            \o ReplaceAll(Tail(s), table)

RECURSIVE SplitAcc(_, _, _)
SplitAcc(s, cur, words) ==
    LET closed == IF cur = <<>> THEN words ELSE Append(words, cur)
    IN IF s = <<>> THEN closed
       ELSE IF Head(s) = " " THEN SplitAcc(Tail(s), <<>>, closed)
       ELSE SplitAcc(Tail(s), Append(cur, Head(s)), words)

\* s.split(): the words between runs of white space
SplitWords(s) == SplitAcc(s, <<>>, <<>>)

\* the club-suffix tokens {"fc", "cf", "sc", "afc", "c.f."}
CLUB_SUFFIXES ==
    { <<"f", "c">>, <<"c", "f">>, <<"s", "c">>, <<"a", "f", "c">>, <<"c", ".", "f", ".">> }

\* [w for w in words if w not in {...}]
DropSuffixes(words) ==
    SelectRows(words, { i \in 1..Len(words) : words[i] \notin CLUB_SUFFIXES })

RECURSIVE JoinWords(_)
\* " ".join(filtered)
JoinWords(words) ==
    IF words = <<>> THEN <<>>
    ELSE IF Len(words) = 1 THEN words[1]
    ELSE words[1] \o <<" ">> \o JoinWords(Tail(words))

\* TEAM_ALIASES: <<normalized Smarkets name, name in the historical dataset>>
TEAM_ALIASES ==
    << << <<"lincoln", " ", "city">>, <<"lincoln">> >>,
       << <<"burton", " ", "albion">>, <<"burton">> >>,
       << <<"peterborough">>, <<"peterboro">> >>,
       << <<"sheff", " ", "wed">>, <<"sheffield", " ", "weds">> >>,
       << <<"sheff", " ", "utd">>, <<"sheffield", " ", "united">> >>,
       << <<"bristol", " ", "rovers">>, <<"bristol", " ", "rvs">> >>,
       << <<"salford", " ", "city">>, <<"salford">> >>,
       << <<"man", " ", "utd">>, <<"man", " ", "united">> >>,
       << <<"wolverhampton">>, <<"wolves">> >>,
       << <<"usl", " ", "dunkerque">>, <<"dunkerque">> >>,
       << <<"aris", " ", "thessaloniki">>, <<"aris">> >>,
       << <<"1", " ", "magdeburg">>, <<"magdeburg">> >>,
       << <<"nfc", " ", "volos">>, <<"volos", " ", "nfc">> >>,
       << <<"red", " ", "bull", " ", "salzburg">>, <<"salzburg">> >>,
       << <<"atromitos", " ", "athens">>, <<"atromitos">> >>,
       << <<"psg">>, <<"paris">> >>,
       << <<"a", "c", " ", "milan">>, <<"milan">> >>,
       << <<"inter", " ", "milan">>, <<"inter">> >> >>

\* key = (norm_name or "").strip().lower(); TEAM_ALIASES.get(key, key)
apply_team_alias(norm_name) ==
    LET key == LowerStrip(norm_name)
        hits == { i \in 1..Len(TEAM_ALIASES) : TEAM_ALIASES[i][1] = key }
    IN IF hits = {} THEN key ELSE TEAM_ALIASES[CHOOSE i \in hits : TRUE][2]

\* mutant: the suffix tokens are dropped before the punctuation is replaced
normalize_team_name_suffixes_first(name) ==
    apply_team_alias(JoinWords(SplitWords(ReplaceAll(
        JoinWords(DropSuffixes(SplitWords(ReplaceAll(LowerStrip(name), DIACRITICS)))),
        PUNCTUATION))))

normalize_team_name(name) ==
    LET s == ReplaceAll(ReplaceAll(LowerStrip(name), DIACRITICS), PUNCTUATION)
        words == SplitWords(s)
        filtered == DropSuffixes(words)
        norm == JoinWords(filtered)
    IN apply_team_alias(norm)

(***************************************************************************)
(* Feed loaders: api/fetch_football_data.py load_and_normalize and         *)
(* load_and_normalize_world.  A raw frame is [columns, rows]: the sequence *)
(* of its headers and the sequence of its rows, a row being a function     *)
(* from the headers to cells.  A header is [name, case]: its letters in    *)
(* lower case and the way it is cased.  A cell is [col, kind, v]: the      *)
(* header of the column it stands in, and a missing cell ("nan"), a date   *)
(* (a timestamp or a day-first date string; v is the day), a text (v is    *)
(* the string, as for the identity normalizer) or a number.                *)
(***************************************************************************)
Header(name, case) == [name |-> name, case |-> case]

\* c.lower()
HeaderLower(h) == [h EXCEPT !.case = "lower"]

\* the column that is not there
NoHeader == Header("", "lower")

MissingCell == [col |-> NoHeader, kind |-> "nan", v |-> <<>>]

IsMissing(cell) == cell.kind = "nan"

\* the priority lists of load_and_normalize and the literal defaults
SYNONYMS ==
    [ date |-> <<"date", "match date", "dateutc">>,
      time |-> <<"time", "ko time">>,
      home |-> <<"hometeam", "home team", "home">>,
      away |-> <<"awayteam", "away team", "away">>,
      div  |-> <<"div", "league", "competition">>,
      fthg |-> <<"fthg", "hg", "home goals">>,
      ftag |-> <<"ftag", "ag", "away goals">>,
      hthg |-> <<"hthg">>,
      htag |-> <<"htag">> ]

DEFAULTS ==
    [ date |-> Header("date", "title"),
      time |-> Header("time", "title"),
      home |-> Header("hometeam", "camel"),
      away |-> Header("awayteam", "camel"),
      div  |-> Header("div", "title"),
      fthg |-> Header("fthg", "upper"),
      ftag |-> Header("ftag", "upper"),
      hthg |-> Header("hthg", "upper"),
      htag |-> Header("htag", "upper") ]

\* the priority lists and the defaults of load_and_normalize_world
WORLD_SYNONYMS ==
    [ date |-> <<"date", "match date">>,
      time |-> <<"time", "ko time">>,
      home |-> <<"home">>,
      away |-> <<"away">>,
      fthg |-> <<"hg", "home goals">>,
      ftag |-> <<"ag", "away goals">>,
      country |-> <<"country">>,
      league |-> <<"league">> ]

WORLD_DEFAULTS ==
    [ date |-> Header("date", "title"),
      time |-> Header("time", "title"),
      home |-> Header("home", "title"),
      away |-> Header("away", "title"),
      fthg |-> Header("hg", "upper"),
      ftag |-> Header("ag", "upper"),
      country |-> Header("country", "title"),
      league |-> Header("league", "title") ]

\* "n in cols" for cols = {c.lower(): c for c in df.columns}
InCols(df, h) == \E i \in 1..Len(df.columns) : HeaderLower(df.columns[i]) = h

\* cols[n]: of the columns that lower to n the dict keeps the last
ColsAt(df, n) ==
    LET hits == { i \in 1..Len(df.columns) : HeaderLower(df.columns[i]) = n }
    IN df.columns[CHOOSE i \in hits : \A j \in hits : j <= i]

RECURSIVE find(_, _)
\* find(name_opts): None is the empty tuple
find(df, name_opts) ==
    IF name_opts = <<>> THEN None
    ELSE IF InCols(df, Header(Head(name_opts), "lower"))
    THEN Some(ColsAt(df, Header(Head(name_opts), "lower")))
    ELSE find(df, Tail(name_opts))

\* find([...]) or "Default"
FindOr(df, name_opts, default) ==
    IF find(df, name_opts) = None THEN default ELSE find(df, name_opts)[1]

\* df.get(col), as the cell of row i: a column that is not there gives None,
\* and a column assigned None is missing in every row
CellAt(df, col, i) ==
    IF \E k \in 1..Len(df.columns) : df.columns[k] = col
    THEN df.rows[i][col]
    ELSE MissingCell

\* pd.to_datetime(..., dayfirst=True, errors="coerce")
to_datetime(cell) == IF cell.kind = "date" THEN cell.v ELSE NaT

\* astype(str)
AsStr(cell) ==
    IF cell.kind = "nan" THEN <<"nan">> ELSE IF cell.kind = "text" THEN cell.v ELSE <<"0">>

\* mutant: only the date is required
dropna_date_only(out) == SelectRows(out, { i \in 1..Len(out) : out[i].date # NaT })

\* out.dropna(subset=["date", "HomeTeam", "AwayTeam"])
dropna_core(out) ==
    SelectRows(out, { i \in 1..Len(out) :
        out[i].date # NaT /\ ~IsMissing(out[i].HomeTeam) /\ ~IsMissing(out[i].AwayTeam) })

\* the odds and statistics columns, copied by their literal headers, and the
\* helper columns home, away, league, home_goals, away_goals and league_norm
\* are left out
load_and_normalize(df) ==
    LET date_col == FindOr(df, SYNONYMS.date, DEFAULTS.date)
        time_col == FindOr(df, SYNONYMS.time, DEFAULTS.time)
        home_col == FindOr(df, SYNONYMS.home, DEFAULTS.home)
        away_col == FindOr(df, SYNONYMS.away, DEFAULTS.away)
        div_col == FindOr(df, SYNONYMS.div, DEFAULTS.div)
        fthg_col == FindOr(df, SYNONYMS.fthg, DEFAULTS.fthg)
        ftag_col == FindOr(df, SYNONYMS.ftag, DEFAULTS.ftag)
        hthg_col == FindOr(df, SYNONYMS.hthg, DEFAULTS.hthg)
        htag_col == FindOr(df, SYNONYMS.htag, DEFAULTS.htag)
        out == [ i \in 1..Len(df.rows) |->
                 [ Div |-> CellAt(df, div_col, i),
                   Date |-> CellAt(df, date_col, i),
                   Time |-> CellAt(df, time_col, i),
                   HomeTeam |-> CellAt(df, home_col, i),
                   AwayTeam |-> CellAt(df, away_col, i),
                   FTHG |-> CellAt(df, fthg_col, i),
                   FTAG |-> CellAt(df, ftag_col, i),
                   \* df.get(hthg_col) if hthg_col in cols else df.get("HTHG")
                   HTHG |-> IF InCols(df, hthg_col) THEN CellAt(df, hthg_col, i)
                            ELSE CellAt(df, Header("hthg", "upper"), i),
                   HTAG |-> IF InCols(df, htag_col) THEN CellAt(df, htag_col, i)
                            ELSE CellAt(df, Header("htag", "upper"), i),
                   date |-> to_datetime(CellAt(df, date_col, i)),
                   home_norm |-> normalize_team_name(AsStr(CellAt(df, home_col, i))),
                   away_norm |-> normalize_team_name(AsStr(CellAt(df, away_col, i))),
                   has_half_time_data |-> TRUE ] ]
    IN dropna_core(out)

\* country + "_" + league, each astype(str).str.strip(): a column that is not
\* there is the empty string in every row
WorldDiv(df, country_col, league_col, i) ==
    LET part(col) == IF \E k \in 1..Len(df.columns) : df.columns[k] = col
                     THEN StripRight(StripLeft(AsStr(df.rows[i][col])))
                     ELSE <<>>
    IN [ col |-> NoHeader, kind |-> "text",
         v |-> part(country_col) \o <<"_">> \o part(league_col) ]

load_and_normalize_world(df) ==
    LET date_col == FindOr(df, WORLD_SYNONYMS.date, WORLD_DEFAULTS.date)
        time_col == FindOr(df, WORLD_SYNONYMS.time, WORLD_DEFAULTS.time)
        home_col == FindOr(df, WORLD_SYNONYMS.home, WORLD_DEFAULTS.home)
        away_col == FindOr(df, WORLD_SYNONYMS.away, WORLD_DEFAULTS.away)
        hg_col == FindOr(df, WORLD_SYNONYMS.fthg, WORLD_DEFAULTS.fthg)
        ag_col == FindOr(df, WORLD_SYNONYMS.ftag, WORLD_DEFAULTS.ftag)
        country_col == FindOr(df, WORLD_SYNONYMS.country, WORLD_DEFAULTS.country)
        league_col == FindOr(df, WORLD_SYNONYMS.league, WORLD_DEFAULTS.league)
        out == [ i \in 1..Len(df.rows) |->
                 [ Div |-> WorldDiv(df, country_col, league_col, i),
                   Date |-> CellAt(df, date_col, i),
                   Time |-> CellAt(df, time_col, i),
                   HomeTeam |-> CellAt(df, home_col, i),
                   AwayTeam |-> CellAt(df, away_col, i),
                   FTHG |-> CellAt(df, hg_col, i),
                   FTAG |-> CellAt(df, ag_col, i),
                   HTHG |-> MissingCell,
                   HTAG |-> MissingCell,
                   date |-> to_datetime(CellAt(df, date_col, i)),
                   home_norm |-> normalize_team_name(AsStr(CellAt(df, home_col, i))),
                   away_norm |-> normalize_team_name(AsStr(CellAt(df, away_col, i))),
                   has_half_time_data |-> FALSE ] ]
    IN dropna_core(out)

(***************************************************************************)
(* Float columns with missing cells.                                       *)
(***************************************************************************)
\* mutant: the bound itself does not count
GeStrict(x, y) == ~IsNaN(x) /\ ~IsNaN(y) /\ x > y

\* comparisons with a NaN operand are False
Gt(x, y) == ~IsNaN(x) /\ ~IsNaN(y) /\ x > y
Ge(x, y) == ~IsNaN(x) /\ ~IsNaN(y) /\ x >= y
Eq(x, y) == ~IsNaN(x) /\ ~IsNaN(y) /\ x = y
\* arithmetic with a NaN operand is NaN
Plus(x, y) == IF IsNaN(x) \/ IsNaN(y) THEN NaN ELSE x + y
Minus(x, y) == IF IsNaN(x) \/ IsNaN(y) THEN NaN ELSE x - y
\* Series.clip(lower=0)
ClipLower0(x) == IF IsNaN(x) THEN NaN ELSE IF x < 0 THEN 0 ELSE x

RECURSIVE SumBetween(_, _, _)
\* the sum of the cells of col at the positions lo..hi that are not missing
SumBetween(col, lo, hi) ==
    IF lo > hi THEN 0
    ELSE IF lo = hi THEN (IF IsNaN(col[lo]) THEN 0 ELSE col[lo])
    ELSE LET mid == (lo + hi) \div 2
         IN SumBetween(col, lo, mid) + SumBetween(col, mid + 1, hi)

\* Series.sum(): missing cells are skipped
SumSkipNa(col) ==
    CHOOSE total \in { SumBetween(c, 1, Len(c)) : c \in {col \o <<>>} } : TRUE

CountNotNa(col) == Cardinality({ i \in 1..Len(col) : ~IsNaN(col[i]) })

\* Series.mean()
Mean(col) == <<SumSkipNa(col), CountNotNa(col)>>

\* mask.sum() for a mask given as the set of row positions where it is True
MaskSum(mask) == Cardinality(mask)

(***************************************************************************)
(* Analytics: api/analytics.py.                                            *)
(***************************************************************************)
\* subset of _team_matches' drop_duplicates
DupKey(r) == <<r.Div, r.date, r.home_norm, r.away_norm, r.FTHG, r.FTAG>>

\* mutant: no row is dropped
KeepDuplicateRows(s) == s

\* sub.drop_duplicates(subset=[...], keep="first")
DropDuplicateRows(s) ==
    SelectRows(s, { i \in 1..Len(s) : \A j \in 1..(i - 1) : DupKey(s[j]) # DupKey(s[i]) })

_team_matches(df, team_norm, div_code) ==
    LET sub0 == SelectRows(df, { i \in 1..Len(df) :
                    df[i].home_norm = team_norm \/ df[i].away_norm = team_norm })
        sub1 == IF Truthy(div_code)
                THEN SelectRows(sub0, { i \in 1..Len(sub0) : sub0[i].Div = div_code[1] })
                ELSE sub0
    IN SortByDateDesc(DropDuplicateRows(sub1))

\* n is None or Some(int)
_last_n(sub, n) ==
    IF sub = <<>> THEN sub
    ELSE IF n = None \/ n[1] <= 0 THEN sub
    ELSE HeadRows(sub, n[1])

\* mutant: only the orientation home_norm at home is matched
PairRowsOneWay(df, home_norm, away_norm) ==
    SelectRows(df, { i \in 1..Len(df) :
        df[i].home_norm = home_norm /\ df[i].away_norm = away_norm })

_pair_rows(df, home_norm, away_norm) ==
    SelectRows(df, { i \in 1..Len(df) :
        \/ df[i].home_norm = home_norm /\ df[i].away_norm = away_norm
        \/ df[i].home_norm = away_norm /\ df[i].away_norm = home_norm })

\* the window of compute_h2h, compute_h2h_matches and compute_league_overview:
\* "if isinstance(max_matches, int) and max_matches > 0: sub = sub.head(max_matches)"
HeadIfPositive(sub, max_matches) ==
    IF max_matches # None /\ max_matches[1] > 0 THEN HeadRows(sub, max_matches[1]) ELSE sub

\* mutant: the guard of the conditional is ignored
RateUnguarded(cnt, den, cond) == <<cnt, den>>

\* "float(cnt) / float(den) if cond else None"
RateIf(cnt, den, cond) == IF cond THEN <<cnt, den>> ELSE None

\* the default record of compute_team_stats for an empty window
EmptyTeamStats(team_norm, div_code) ==
    [ team_norm |-> team_norm,
      n |-> 0,
      league_div |-> div_code,
      league_name |-> friendly_name_for_div(div_code),
      avg_goals_scored |-> None,
      avg_goals_conceded |-> None,
      wins_count |-> 0, wins_pct |-> None,
      wins_others_count |-> 0, wins_others_pct |-> None,
      draws_count |-> 0, draws_pct |-> None,
      draws_others_count |-> 0, draws_others_pct |-> None,
      losses_count |-> 0, losses_pct |-> None,
      losses_others_count |-> 0, losses_others_pct |-> None,
      home_ht_2plus_count |-> 0, home_ht_2plus_pct |-> None,
      away_ht_2plus_count |-> 0, away_ht_2plus_pct |-> None ]

\* compute_team_stats from "is_home = ..." on, for a non-empty window sub
\* (INSIGHTS_DEBUG_EXAMPLES unset: no *_examples keys)
TeamStatsOf(sub, team_norm, div_code) ==
    LET rows == 1..Len(sub)
        is_home == { i \in rows : sub[i].home_norm = team_norm }
        not_home == rows \ is_home
        gf == [i \in rows |-> IF i \in is_home THEN sub[i].FTHG ELSE sub[i].FTAG]
        ga == [i \in rows |-> IF i \in is_home THEN sub[i].FTAG ELSE sub[i].FTHG]
        gf_ht == [i \in rows |-> IF i \in is_home THEN sub[i].HTHG ELSE sub[i].HTAG]
        ga_ht == [i \in rows |-> IF i \in is_home THEN sub[i].HTAG ELSE sub[i].HTHG]
        gf_2h == [i \in rows |-> ClipLower0(Minus(gf[i], gf_ht[i]))]
        total_gf == SumSkipNa(gf)
        share_gf_2h == RateIf(SumSkipNa(gf_2h), total_gf, total_gf > 0)
        total_goals == [i \in rows |-> Plus(sub[i].FTHG, sub[i].FTAG)]
        wins_mask == { i \in rows : Gt(gf[i], ga[i]) }
        draws_mask == { i \in rows : Eq(gf[i], ga[i]) }
        losses_mask == { i \in rows : Gt(ga[i], gf[i]) }
        n == Len(sub)
        _pct(cnt) == RateIf(cnt, n, n > 0)
        wins_others_mask == { i \in wins_mask : Ge(gf[i], 4) }
        draws_others_mask == { i \in draws_mask : Ge(gf[i], 4) /\ Ge(ga[i], 4) }
        losses_others_mask == { i \in losses_mask : Ge(ga[i], 4) }
        gf_ht_2 == { i \in rows : Ge(gf_ht[i], 2) }
        ga_ht_2 == { i \in rows : Ge(ga_ht[i], 2) }
    IN
    [ team_norm |-> team_norm,
      n |-> n,
      avg_goals_scored |-> Mean(gf),
      avg_goals_conceded |-> Mean(ga),
      over_0_5_rate |-> <<MaskSum({ i \in rows : Ge(total_goals[i], 1) }), n>>,
      clean_sheet_rate |-> <<MaskSum({ i \in rows : Eq(ga[i], 0) }), n>>,
      goals_share_second_half |-> share_gf_2h,
      league_div |-> div_code,
      league_name |-> friendly_name_for_div(div_code),
      wins_count |-> MaskSum(wins_mask), wins_pct |-> _pct(MaskSum(wins_mask)),
      wins_others_count |-> MaskSum(wins_others_mask),
      wins_others_pct |-> _pct(MaskSum(wins_others_mask)),
      draws_count |-> MaskSum(draws_mask), draws_pct |-> _pct(MaskSum(draws_mask)),
      draws_others_count |-> MaskSum(draws_others_mask),
      draws_others_pct |-> _pct(MaskSum(draws_others_mask)),
      losses_count |-> MaskSum(losses_mask), losses_pct |-> _pct(MaskSum(losses_mask)),
      losses_others_count |-> MaskSum(losses_others_mask),
      losses_others_pct |-> _pct(MaskSum(losses_others_mask)),
      home_ht_2plus_count |-> MaskSum(is_home \cap gf_ht_2),
      home_ht_2plus_pct |->
          RateIf(MaskSum(is_home \cap gf_ht_2), MaskSum(is_home), MaskSum(is_home) > 0),
      away_ht_2plus_count |-> MaskSum(not_home \cap gf_ht_2),
      away_ht_2plus_pct |->
          RateIf(MaskSum(not_home \cap gf_ht_2), MaskSum(not_home), MaskSum(not_home) > 0),
      home_ht_2plus_conceded_count |-> MaskSum(is_home \cap ga_ht_2),
      home_ht_2plus_conceded_pct |->
          RateIf(MaskSum(is_home \cap ga_ht_2), MaskSum(is_home), MaskSum(is_home) > 0),
      away_ht_2plus_conceded_count |-> MaskSum(not_home \cap ga_ht_2),
      away_ht_2plus_conceded_pct |->
          RateIf(MaskSum(not_home \cap ga_ht_2), MaskSum(not_home), MaskSum(not_home) > 0),
      ht_2plus_to_win_others_pct |->
          RateIf(MaskSum(gf_ht_2 \cap wins_others_mask), MaskSum(gf_ht_2),
                 MaskSum(gf_ht_2) > 0),
      ht_2plus_conceded_to_lost_others_pct |->
          RateIf(MaskSum(ga_ht_2 \cap losses_others_mask), MaskSum(ga_ht_2),
                 MaskSum(ga_ht_2) > 0),
      home_ht_2plus_conceded_to_lost_others_pct |->
          RateIf(MaskSum(is_home \cap ga_ht_2 \cap losses_others_mask),
                 MaskSum(is_home \cap ga_ht_2), MaskSum(is_home \cap ga_ht_2) > 0),
      away_ht_2plus_conceded_to_lost_others_pct |->
          RateIf(MaskSum(not_home \cap ga_ht_2 \cap losses_others_mask),
                 MaskSum(not_home \cap ga_ht_2), MaskSum(not_home \cap ga_ht_2) > 0) ]

compute_team_stats(df, team_norm, div_code, max_matches) ==
    LET sub == _last_n(_team_matches(df, team_norm, div_code), max_matches)
    IN IF sub = <<>> THEN EmptyTeamStats(team_norm, div_code)
       ELSE TeamStatsOf(sub, team_norm, div_code)

\* the rows compute_h2h and compute_h2h_matches work on
H2HRows(df, home_norm, away_norm, max_matches) ==
    HeadIfPositive(SortByDateDesc(_pair_rows(df, home_norm, away_norm)), max_matches)

\* mutant: head-to-head within the league of the pair's latest meeting only
compute_h2h_latest_league(df, home_norm, away_norm, max_matches) ==
    LET met == SortByDateDesc(_pair_rows(df, home_norm, away_norm))
        sub == HeadIfPositive(
                   SelectRows(met, { i \in 1..Len(met) : met[i].Div = met[1].Div }),
                   max_matches)
        rows == 1..Len(sub)
        total_goals == [i \in rows |-> Plus(sub[i].FTHG, sub[i].FTAG)]
        zero_zero == MaskSum({ i \in rows : Eq(total_goals[i], 0) })
    IN IF sub = <<>> THEN [n |-> 0]
       ELSE [ n |-> Len(sub),
              zero_zero_rate |-> <<zero_zero, Len(sub)>>,
              over_0_5_rate |-> <<Len(sub) - zero_zero, Len(sub)>>,
              avg_total_goals |-> Mean(total_goals) ]

\* mutant: the mean divides by the number of rows, missing totals counting as 0
compute_h2h_mean_over_n(df, home_norm, away_norm, max_matches) ==
    LET sub == H2HRows(df, home_norm, away_norm, max_matches)
        rows == 1..Len(sub)
        total_goals == [i \in rows |-> Plus(sub[i].FTHG, sub[i].FTAG)]
        zero_zero == MaskSum({ i \in rows : Eq(total_goals[i], 0) })
    IN IF sub = <<>> THEN [n |-> 0]
       ELSE [ n |-> Len(sub),
              zero_zero_rate |-> <<zero_zero, Len(sub)>>,
              over_0_5_rate |-> <<Len(sub) - zero_zero, Len(sub)>>,
              avg_total_goals |-> <<SumSkipNa(total_goals), Len(sub)>> ]

compute_h2h(df, home_norm, away_norm, max_matches) ==
    LET sub == H2HRows(df, home_norm, away_norm, max_matches)
        rows == 1..Len(sub)
        total_goals == [i \in rows |-> Plus(sub[i].FTHG, sub[i].FTAG)]
        zero_zero == MaskSum({ i \in rows : Eq(total_goals[i], 0) })
    IN IF sub = <<>> THEN [n |-> 0]
       ELSE [ n |-> Len(sub),
              zero_zero_rate |-> <<zero_zero, Len(sub)>>,
              over_0_5_rate |-> <<Len(sub) - zero_zero, Len(sub)>>,
              avg_total_goals |-> Mean(total_goals) ]

\* "float(x) if pd.notna(x) else None"
FloatOrNone(x) == IF IsNaN(x) THEN None ELSE Some(x)

\* the loop over sub.iterrows(): one list item per row, in order
FixtureList(sub) ==
    [ i \in 1..Len(sub) |->
        [ date |-> sub[i].date,
          home_norm |-> sub[i].home_norm,
          away_norm |-> sub[i].away_norm,
          FTHG |-> FloatOrNone(sub[i].FTHG),
          FTAG |-> FloatOrNone(sub[i].FTAG) ] ]

\* mutant: the fixture list is not cut to the window
compute_h2h_matches_untruncated(df, home_norm, away_norm, max_matches) ==
    FixtureList(SortByDateDesc(_pair_rows(df, home_norm, away_norm)))

compute_h2h_matches(df, home_norm, away_norm, max_matches) ==
    FixtureList(H2HRows(df, home_norm, away_norm, max_matches))

compute_league_overview(df, div_code, max_matches) ==
    LET all == IF Truthy(div_code)
               THEN SelectRows(df, { i \in 1..Len(df) : df[i].Div = div_code[1] })
               ELSE <<>>
        sub == HeadIfPositive(SortByDateDesc(all), max_matches)
        rows == 1..Len(sub)
        FTHG == [i \in rows |-> sub[i].FTHG]
        FTAG == [i \in rows |-> sub[i].FTAG]
        total_goals == [i \in rows |-> Plus(FTHG[i], FTAG[i])]
        zero_zero == MaskSum({ i \in rows : Eq(total_goals[i], 0) })
        n == Len(sub)
        _pct(cnt) == RateIf(cnt, n, n > 0)
        home_win_mask == { i \in rows : Gt(FTHG[i], FTAG[i]) }
        draw_mask == { i \in rows : Eq(FTHG[i], FTAG[i]) }
        away_win_mask == { i \in rows : Gt(FTAG[i], FTHG[i]) }
    IN IF sub = <<>> THEN [n |-> 0]
       ELSE
       [ n |-> n,
         avg_total_goals |-> Mean(total_goals),
         over_0_5_rate |-> RateIf(n - zero_zero, n, n > 0),
         avg_goals_home |-> Mean(FTHG),
         avg_goals_away |-> Mean(FTAG),
         home_scored_2plus_pct |-> RateIf(MaskSum({ i \in rows : Ge(FTHG[i], 2) }), n, n > 0),
         away_scored_2plus_pct |-> RateIf(MaskSum({ i \in rows : Ge(FTAG[i], 2) }), n, n > 0),
         home_ht_2plus_pct |-> RateIf(MaskSum({ i \in rows : Ge(sub[i].HTHG, 2) }), n, n > 0),
         away_ht_2plus_pct |-> RateIf(MaskSum({ i \in rows : Ge(sub[i].HTAG, 2) }), n, n > 0),
         home_win_count |-> MaskSum(home_win_mask),
         home_win_pct |-> _pct(MaskSum(home_win_mask)),
         home_win_others_count |-> MaskSum({ i \in home_win_mask : Ge(FTHG[i], 4) }),
         home_win_others_pct |-> _pct(MaskSum({ i \in home_win_mask : Ge(FTHG[i], 4) })),
         draw_count |-> MaskSum(draw_mask),
         draw_pct |-> _pct(MaskSum(draw_mask)),
         draw_others_count |->
             MaskSum({ i \in draw_mask : Ge(FTHG[i], 4) /\ Ge(FTAG[i], 4) }),
         draw_others_pct |->
             _pct(MaskSum({ i \in draw_mask : Ge(FTHG[i], 4) /\ Ge(FTAG[i], 4) })),
         away_win_count |-> MaskSum(away_win_mask),
         away_win_pct |-> _pct(MaskSum(away_win_mask)),
         away_win_others_count |-> MaskSum({ i \in away_win_mask : Ge(FTAG[i], 4) }),
         away_win_others_pct |-> _pct(MaskSum({ i \in away_win_mask : Ge(FTAG[i], 4) })) ]

(***************************************************************************)
(* League resolution and the match insight composer:                       *)
(* league_map.py resolve_div_from_slug, analytics.py build_match_insights. *)
(***************************************************************************)
\* A slug hint is a Python value: None, a str or (from a JSON body) an int.
\* A str is the path "/" + segs[1] + "/" + segs[2] + ...; a last segment ""
\* is a trailing slash, no segment at all is the empty string.
SlugNone == [type |-> "NoneType", segs |-> <<>>]
SlugStr(segs) == [type |-> "str", segs |-> segs]
SlugInt == [type |-> "int", segs |-> <<>>]

\* str.lower() on the segments that are written with capitals
LowerTable ==
    << <<"Sport", "sport">>, <<"Football", "football">>, <<"Leagues", "leagues">>,
       <<"England-Premier-League", "england-premier-league">> >>

Lower(seg) ==
    LET hits == { i \in 1..Len(LowerTable) : LowerTable[i][1] = seg }
    IN IF hits = {} THEN seg ELSE LowerTable[CHOOSE i \in hits : TRUE][2]

\* "if not full_slug": None and "" are falsy, a non-zero int is truthy
SlugFalsy(full_slug) ==
    full_slug.type = "NoneType" \/ (full_slug.type = "str" /\ full_slug.segs = <<>>)

\* full_slug.lower() raises AttributeError on a value that is no str
resolve_div_from_slug_raises(full_slug) ==
    ~SlugFalsy(full_slug) /\ full_slug.type # "str"

\* re.search(r"/leagues/([^/]+)/", s): the leftmost segment "leagues" that is
\* followed by a non-empty segment and one more "/"; then SLUG_TO_DIV.get(slug)
resolve_div_from_slug(full_slug) ==
    IF SlugFalsy(full_slug) THEN None
    ELSE LET s == [i \in 1..Len(full_slug.segs) |-> Lower(full_slug.segs[i])]
             m == { i \in 1..Len(s) : s[i] = "leagues" /\ i + 2 <= Len(s) /\ s[i + 1] # "" }
         IN IF m = {} THEN None
            ELSE LET slug == s[(CHOOSE i \in m : \A j \in m : i <= j) + 1]
                     hits == { k \in 1..Len(SLUG_TO_DIV) : SLUG_TO_DIV[k][1] = slug }
                 IN IF hits = {} THEN None
                    ELSE Some(SLUG_TO_DIV[CHOOSE k \in hits : TRUE][2])

\* a missing Div cell, as astype(str) prints it
DivNaN == "nan"

\* mutant: the oldest row decides
latest_div_oldest(rows) ==
    LET r == SortByDateAsc(SelectRows(rows, { i \in 1..Len(rows) : rows[i].Div # DivNaN }))
    IN IF r = <<>> THEN None ELSE Some(r[1].Div)

\* rows.dropna(subset=["Div"]).sort_values("date", ascending=False).head(1)
latest_div(rows) ==
    IF rows = <<>> THEN None
    ELSE LET r == HeadRows(SortByDateDesc(
                      SelectRows(rows, { i \in 1..Len(rows) : rows[i].Div # DivNaN })), 1)
         IN IF r = <<>> THEN None ELSE Some(r[1].Div)

\* mutant: the event league is used only for a team that has no league of its own
TeamScopeDivHistoryFirst(event_div, own_div) ==
    IF Truthy(own_div) THEN own_div ELSE event_div

\* the league filter of a team's compute_team_stats call: event_div in the
\* branch "if event_div", the team's latest_div in the other
TeamScopeDiv(event_div, own_div) ==
    IF Truthy(event_div) THEN event_div ELSE own_div

\* str(div) of a league_scope block
ScopeBlock(type, div) == [type |-> type, div |-> div[1], name |-> friendly_name_for_div(div)]

\* mutant: the away team's league gets a block of its own even when it is the
\* home team's
LeagueScopeBlocksPerTeam(event_div, home_div, away_div) ==
    IF Truthy(event_div) THEN <<ScopeBlock("event", event_div)>>
    ELSE (IF Truthy(home_div) THEN <<ScopeBlock("home", home_div)>> ELSE <<>>)
         \o (IF Truthy(away_div) THEN <<ScopeBlock("away", away_div)>> ELSE <<>>)

\* league_scope before it is enriched
LeagueScopeBlocks(event_div, home_div, away_div) ==
    IF Truthy(event_div) THEN <<ScopeBlock("event", event_div)>>
    ELSE (IF Truthy(home_div) THEN <<ScopeBlock("home", home_div)>> ELSE <<>>)
         \o (IF Truthy(away_div) /\ away_div # home_div
             THEN <<ScopeBlock("away", away_div)>> ELSE <<>>)

InsightStatus(event_div, home_div, away_div) ==
    IF Truthy(event_div) THEN "event-league-scope"
    ELSE IF ~Truthy(home_div) /\ ~Truthy(away_div) THEN "no-league-scope"
    ELSE IF Truthy(home_div) /\ Truthy(away_div) /\ home_div = away_div
         THEN "same-latest-league"
    ELSE "per-team-latest-league"

build_match_insights(df, home_norm, away_norm, full_slug, max_matches, h2h_max) ==
    LET event_div == resolve_div_from_slug(full_slug)
        home_rows_any == _team_matches(df, home_norm, None)
        away_rows_any == _team_matches(df, away_norm, None)
        home_div == latest_div(home_rows_any)
        away_div == latest_div(away_rows_any)
        blocks == LeagueScopeBlocks(event_div, home_div, away_div)
    IN [ league_div |-> event_div,
         status |-> InsightStatus(event_div, home_div, away_div),
         home |-> compute_team_stats(df, home_norm, TeamScopeDiv(event_div, home_div),
                                     max_matches),
         away |-> compute_team_stats(df, away_norm, TeamScopeDiv(event_div, away_div),
                                     max_matches),
         h2h |-> compute_h2h(df, home_norm, away_norm, h2h_max),
         h2h_matches |-> compute_h2h_matches(df, home_norm, away_norm, h2h_max),
         \* {**blk, **stats}
         league_scope |-> [ i \in 1..Len(blocks) |->
             compute_league_overview(df, Some(blocks[i].div), None) @@ blocks[i] ] ]

(***************************************************************************)
(* The debug toggle of app.py api_match_insights and its reader in         *)
(* compute_team_stats.  A request here misses the response cache and has   *)
(* one fixture with both names; its handler runs in a worker thread, so    *)
(* the statements of two requests interleave.                              *)
(***************************************************************************)
NumRequests == 2

Requests == 1..NumRequests

\* a request that is not in flight
IdleRequest ==
    [ pc |-> "idle", debug_examples |-> FALSE, prev_debug |-> None,
      home_examples |-> FALSE, away_examples |-> FALSE ]

InitToggle ==
    /\ environ = None
    /\ req = [r \in Requests |-> IdleRequest]

\* GET /api/analytics/match-insights?ids=...&debug_examples=...
RequestStart(r, debug_examples) ==
    /\ req[r].pc = "idle"
    /\ req' = [req EXCEPT ![r] = [IdleRequest EXCEPT !.pc = "read_prev",
                                                      !.debug_examples = debug_examples]]
    /\ UNCHANGED environ
    /\ UNCHANGED <<cacheVars, mergeVars, ds, call, _INSIGHTS_CACHE>>

\* prev_debug = os.environ.get("INSIGHTS_DEBUG_EXAMPLES")
ReadPrevDebug(r) ==
    /\ req[r].pc = "read_prev"
    /\ req' = [req EXCEPT ![r].prev_debug = environ, ![r].pc = "set"]
    /\ UNCHANGED environ
    /\ UNCHANGED <<cacheVars, mergeVars, ds, call, _INSIGHTS_CACHE>>

\* if debug_examples: os.environ["INSIGHTS_DEBUG_EXAMPLES"] = "1"
SetDebug(r) ==
    /\ req[r].pc = "set"
    /\ environ' = IF req[r].debug_examples THEN Some("1") ELSE environ
    /\ req' = [req EXCEPT ![r].pc = "home_stats"]
    /\ UNCHANGED <<cacheVars, mergeVars, ds, call, _INSIGHTS_CACHE>>

\* debug_examples = os.environ.get("INSIGHTS_DEBUG_EXAMPLES", "0") == "1"
\* in compute_team_stats: whether the result gets the *_examples keys
ReadsDebugOn == environ = Some("1")

\* home_stats = compute_team_stats(...) inside build_match_insights
HomeStats(r) ==
    /\ req[r].pc = "home_stats"
    /\ req' = [req EXCEPT ![r].home_examples = ReadsDebugOn, ![r].pc = "away_stats"]
    /\ UNCHANGED environ
    /\ UNCHANGED <<cacheVars, mergeVars, ds, call, _INSIGHTS_CACHE>>

\* away_stats = compute_team_stats(...)
AwayStats(r) ==
    /\ req[r].pc = "away_stats"
    /\ req' = [req EXCEPT ![r].away_examples = ReadsDebugOn, ![r].pc = "finally"]
    /\ UNCHANGED environ
    /\ UNCHANGED <<cacheVars, mergeVars, ds, call, _INSIGHTS_CACHE>>

\* the finally block:
\* if prev_debug is None: os.environ.pop(...) else: os.environ[...] = prev_debug
RestoreDebug(r) ==
    /\ req[r].pc = "finally"
    /\ environ' = req[r].prev_debug
    /\ req' = [req EXCEPT ![r].pc = "respond"]
    /\ UNCHANGED <<cacheVars, mergeVars, ds, call, _INSIGHTS_CACHE>>

\* return JSONResponse(...): the request is over; its record keeps what it
\* computed until the worker takes the next request
Respond(r) ==
    /\ req[r].pc = "respond"
    /\ req' = [req EXCEPT ![r].pc = "idle"]
    /\ UNCHANGED environ
    /\ UNCHANGED <<cacheVars, mergeVars, ds, call, _INSIGHTS_CACHE>>

NextToggle ==
    \/ \E r \in Requests, debug_examples \in BOOLEAN : RequestStart(r, debug_examples)
    \/ \E r \in Requests : ReadPrevDebug(r)
    \/ \E r \in Requests : SetDebug(r)
    \/ \E r \in Requests : HomeStats(r)
    \/ \E r \in Requests : AwayStats(r)
    \/ \E r \in Requests : RestoreDebug(r)
    \/ \E r \in Requests : Respond(r)

(***************************************************************************)
(* The analytics functions applied to datasets.                            *)
(***************************************************************************)
MaxRows == 2
MaxWindow == 2
MaxBulkRows == 82

Dates == {1, 2}

\* the fixtures of the datasets, <<Div, home_norm, away_norm>>: a and b meet at
\* either venue in E0 and once more in E1
Fixtures ==
    { <<"E0", "a", "b">>, <<"E0", "b", "a">>, <<"E1", "a", "b">> }

\* <<FTHG, FTAG, HTHG, HTAG>>: a row without a result, a goalless draw, a 4-1
\* with two first-half goals, and a 2-1 from a feed without half-time goals
ScoreLines ==
    { <<NaN, NaN, NaN, NaN>>, <<0, 0, 0, 0>>, <<4, 1, 2, 0>>, <<2, 1, NaN, NaN>> }

\* every fixture on every date with every score line, and c hosting b in E0
\* on the first date, without a result or with the 4-1
MatchRows ==
    { [ Div |-> f[1], date |-> t, home_norm |-> f[2], away_norm |-> f[3],
        FTHG |-> g[1], FTAG |-> g[2], HTHG |-> g[3], HTAG |-> g[4] ]
      : t \in Dates, f \in Fixtures, g \in ScoreLines }
    \cup
    { [ Div |-> "E0", date |-> 1, home_norm |-> "c", away_norm |-> "b",
        FTHG |-> g[1], FTAG |-> g[2], HTHG |-> g[3], HTAG |-> g[4] ]
      : g \in { <<NaN, NaN, NaN, NaN>>, <<4, 1, 2, 0>> } }

\* Optional[int] windows: None, the non-positive 0 and the positive ones
Windows == {None} \cup { Some(k) : k \in 0..MaxWindow }

\* the league filters asked for
DivFilters == {None, Some("E0")}

NoCall == [op |-> "none", a |-> "", b |-> "", div |-> None, w |-> None, out |-> <<>>]

InitStats ==
    /\ ds = <<>>
    /\ call = NoCall
    /\ _INSIGHTS_CACHE = <<>>
    /\ InitToggle

\* The dataset file is the merger's output: ascending by date (rows of one date
\* in any order), so a new row is never older than the last one.
AddRow(r) ==
    /\ call = NoCall
    /\ Len(ds) < MaxRows
    /\ IF ds = <<>> THEN TRUE ELSE ds[Len(ds)].date <= r.date
    /\ ds' = Append(ds, r)
    /\ UNCHANGED call
    /\ UNCHANGED <<cacheVars, mergeVars, _INSIGHTS_CACHE, toggleVars>>

\* sub = _last_n(_team_matches(df, team_norm, div_code), max_matches)
CallTeamWindow(t, d, w) ==
    /\ call = NoCall
    /\ call' = [op |-> "team_window", a |-> t, b |-> "", div |-> d, w |-> w,
                out |-> _last_n(_team_matches(ds, t, d), w)]
    /\ UNCHANGED ds
    /\ UNCHANGED <<cacheVars, mergeVars, _INSIGHTS_CACHE, toggleVars>>

CallTeamStats(t, d, w) ==
    /\ call = NoCall
    /\ call' = [op |-> "compute_team_stats", a |-> t, b |-> "", div |-> d, w |-> w,
                out |-> compute_team_stats(ds, t, d, w)]
    /\ UNCHANGED ds
    /\ UNCHANGED <<cacheVars, mergeVars, _INSIGHTS_CACHE, toggleVars>>

CallH2H(a, b, w) ==
    /\ call = NoCall
    /\ call' = [op |-> "compute_h2h", a |-> a, b |-> b, div |-> None, w |-> w,
                out |-> compute_h2h(ds, a, b, w)]
    /\ UNCHANGED ds
    /\ UNCHANGED <<cacheVars, mergeVars, _INSIGHTS_CACHE, toggleVars>>

CallH2HMatches(a, b, w) ==
    /\ call = NoCall
    /\ call' = [op |-> "compute_h2h_matches", a |-> a, b |-> b, div |-> None, w |-> w,
                out |-> compute_h2h_matches(ds, a, b, w)]
    /\ UNCHANGED ds
    /\ UNCHANGED <<cacheVars, mergeVars, _INSIGHTS_CACHE, toggleVars>>

CallLeagueOverview(d, w) ==
    /\ call = NoCall
    /\ call' = [op |-> "compute_league_overview", a |-> "", b |-> "", div |-> d, w |-> w,
                out |-> compute_league_overview(ds, d, w)]
    /\ UNCHANGED ds
    /\ UNCHANGED <<cacheVars, mergeVars, _INSIGHTS_CACHE, toggleVars>>

\* the caller has taken the result
CallReturn ==
    /\ call # NoCall
    /\ call' = NoCall
    /\ UNCHANGED ds
    /\ UNCHANGED <<cacheVars, mergeVars, _INSIGHTS_CACHE, toggleVars>>

\* the teams and the pairs asked about
QueryTeams == {"a", "c"}
QueryPairs == { <<"a", "b">>, <<"b", "a">> }

\* the head-to-head aggregate alone
NextH2H ==
    \/ \E r \in MatchRows : AddRow(r)
    \/ \E p \in QueryPairs, w \in Windows : CallH2H(p[1], p[2], w)
    \/ CallReturn

NextStats ==
    \/ \E r \in MatchRows : AddRow(r)
    \/ \E t \in QueryTeams, d \in DivFilters, w \in Windows : CallTeamWindow(t, d, w)
    \/ \E t \in QueryTeams, d \in DivFilters, w \in Windows : CallTeamStats(t, d, w)
    \/ \E p \in QueryPairs, w \in Windows : CallH2H(p[1], p[2], w)
    \/ \E p \in QueryPairs, w \in Windows : CallH2HMatches(p[1], p[2], w)
    \/ \E d \in DivFilters, w \in Windows : CallLeagueOverview(d, w)
    \/ CallReturn

(***************************************************************************)
(* Long histories: one team's matches, one a day, more of them than the    *)
(* default of _last_n.                                                     *)
(***************************************************************************)
\* the default of _last_n's parameter n
LAST_N_DEFAULT == 80

BulkRow(day) ==
    [ Div |-> "E0", date |-> day,
      home_norm |-> IF day % 2 = 0 THEN "a" ELSE "b",
      away_norm |-> IF day % 2 = 0 THEN "b" ELSE "a",
      FTHG |-> 2, FTAG |-> 1, HTHG |-> NaN, HTAG |-> NaN ]

AddBulkRow ==
    /\ call = NoCall
    /\ Len(ds) < MaxBulkRows
    /\ ds' = Append(ds, BulkRow(Len(ds) + 1))
    /\ UNCHANGED call
    /\ UNCHANGED <<cacheVars, mergeVars, _INSIGHTS_CACHE, toggleVars>>

\* mutant: a call without max_matches gets the default of _last_n
compute_team_stats_last_n_default(df, team_norm, div_code) ==
    compute_team_stats(df, team_norm, div_code, Some(LAST_N_DEFAULT))

\* compute_team_stats(df, team_norm, div_code): max_matches takes its default, None
compute_team_stats_no_window(df, team_norm, div_code) ==
    compute_team_stats(df, team_norm, div_code, None)

CallTeamStatsNoWindow(t, d) ==
    /\ call = NoCall
    /\ call' = [op |-> "compute_team_stats_no_window", a |-> t, b |-> "", div |-> d,
                w |-> None, out |-> compute_team_stats_no_window(ds, t, d)]
    /\ UNCHANGED ds
    /\ UNCHANGED <<cacheVars, mergeVars, _INSIGHTS_CACHE, toggleVars>>

BulkWindows == {None, Some(0), Some(1), Some(LAST_N_DEFAULT)}

NextWindow ==
    \/ AddBulkRow
    \/ \E d \in DivFilters : CallTeamStatsNoWindow("a", d)
    \/ \E w \in BulkWindows : CallTeamStats("a", None, w)
    \/ CallReturn

(***************************************************************************)
(* The match insight composer applied to datasets.                         *)
(***************************************************************************)
\* <<Div, home_norm, away_norm>>: a and b meet in E0 and in E1, a has played c
\* in E1, and the Div cell of c's game against b is missing
InsightFixtures ==
    { <<"E0", "a", "b">>, <<"E1", "b", "a">>, <<"E1", "a", "c">>, <<DivNaN, "c", "b">> }

\* every game ends 2-1 after 1-0 at half-time: the leagues and the dates are
\* what the scope depends on
InsightRows ==
    { [ Div |-> f[1], date |-> t, home_norm |-> f[2], away_norm |-> f[3],
        FTHG |-> 2, FTAG |-> 1, HTHG |-> 1, HTAG |-> 0 ]
      : t \in Dates, f \in InsightFixtures }

\* the slug hints of the fixtures: none, the empty string, a known league, a
\* known league written with capitals, an unknown league, a path that ends
\* with the slug, and a path without "/leagues/"
SlugHints ==
    { SlugNone,
      SlugStr(<<>>),
      SlugStr(<<"sport", "football", "leagues", "england-championship", "a-vs-b">>),
      SlugStr(<<"Sport", "Football", "Leagues", "England-Premier-League", "a-vs-b">>),
      SlugStr(<<"sport", "football", "leagues", "brazil-serie-a", "a-vs-b">>),
      SlugStr(<<"sport", "football", "leagues", "england-championship">>),
      SlugStr(<<"sport", "football", "england-championship", "a-vs-b", "">>) }

\* d is in no row
InsightPairs == { <<"a", "b">>, <<"b", "c">>, <<"c", "d">> }

\* <<max_matches, h2h_max>>
InsightWindows == { <<None, None>>, <<Some(1), None>>, <<None, Some(1)>> }

CallBuildMatchInsights(a, b, slug, w, h) ==
    /\ call = NoCall
    /\ call' = [op |-> "build_match_insights", a |-> a, b |-> b, div |-> None, w |-> w,
                h2h_max |-> h, full_slug |-> slug,
                out |-> build_match_insights(ds, a, b, slug, w, h)]
    /\ UNCHANGED ds
    /\ UNCHANGED <<cacheVars, mergeVars, _INSIGHTS_CACHE, toggleVars>>

NextInsights ==
    \/ \E r \in InsightRows : AddRow(r)
    \/ \E p \in InsightPairs, slug \in SlugHints, w \in InsightWindows :
           CallBuildMatchInsights(p[1], p[2], slug, w[1], w[2])
    \/ CallReturn

(***************************************************************************)
(* Match insight API: app.py api_match_insights.  A Python float is kept   *)
(* exactly, as <<numerator, denominator>> in lowest terms; the denominator *)
(* 0 is NaN.                                                               *)
(***************************************************************************)
RECURSIVE GCD(_, _)
GCD(m, n) == IF n = 0 THEN m ELSE GCD(n, m % n)

FloatNaN == <<0, 0>>

IsNanFloat(f) == f[2] = 0

\* float(v) of a mean <<sum, count>>
FloatOf(v) ==
    IF v[2] = 0 THEN FloatNaN
    ELSE LET g == GCD(v[1], v[2]) IN <<v[1] \div g, v[2] \div g>>

\* x < y on floats: False as soon as one side is NaN
FloatLt(x, y) ==
    IF IsNanFloat(x) \/ IsNanFloat(y) THEN FALSE ELSE x[1] * y[2] < y[1] * x[2]

FloatAdd(x, y) ==
    IF IsNanFloat(x) \/ IsNanFloat(y) THEN FloatNaN
    ELSE FloatOf(<<x[1] * y[2] + y[1] * x[2], x[2] * y[2]>>)

FloatMul(x, y) ==
    IF IsNanFloat(x) \/ IsNanFloat(y) THEN FloatNaN
    ELSE FloatOf(<<x[1] * y[1], x[2] * y[2]>>)

\* the builtins min(a, b) and max(a, b): the first argument is kept unless the
\* second compares strictly below (above) it
PyMin(a, b) == IF FloatLt(b, a) THEN b ELSE a

PyMax(a, b) == IF FloatLt(a, b) THEN b ELSE a

\* dict.get(key)
Get(blk, key) == IF key \in DOMAIN blk THEN blk[key] ELSE None

\* "try: f = float(v) ... except Exception": float(None) raises TypeError
FloatTry(v) == IF v = None THEN None ELSE FloatOf(v)

GOALS_LO == <<1, 5>>

GOALS_HI == <<3, 1>>

LAMBDA_LO == <<1, 5>>

LAMBDA_HI == <<5, 1>>

_clamp_goals(v) ==
    LET f == FloatTry(v)
    IN IF f # None /\ ~IsNanFloat(f) THEN PyMax(GOALS_LO, PyMin(f, GOALS_HI)) ELSE None

league_avg_of(insights) ==
    LET league_blocks == insights.league_scope
    IN IF Len(league_blocks) > 0
       THEN FloatTry(Get(league_blocks[1], "avg_total_goals"))
       ELSE None

h2h_avg_of(insights) == FloatTry(Get(insights.h2h, "avg_total_goals"))

comp_sum_of(insights) ==
    LET home_g == _clamp_goals(Get(insights.home, "avg_goals_scored"))
        away_g == _clamp_goals(Get(insights.away, "avg_goals_scored"))
        league_avg == league_avg_of(insights)
    IN IF home_g # None /\ away_g # None THEN FloatAdd(home_g, away_g)
       ELSE IF league_avg # None THEN league_avg
       ELSE None

\* lam of a fixture whose comp_sum is not None, after max(0.2, min(lam, 5.0))
lam_of(insights) ==
    LET comp_sum == comp_sum_of(insights)
        league_avg == league_avg_of(insights)
        h2h_avg == h2h_avg_of(insights)
        ctx_avg == IF h2h_avg # None THEN h2h_avg ELSE league_avg
        lam == FloatAdd(
                   FloatAdd(FloatMul(<<3, 5>>, comp_sum),
                            FloatMul(<<1, 5>>,
                                     IF league_avg # None THEN league_avg ELSE comp_sum)),
                   FloatMul(<<1, 5>>,
                            IF ctx_avg # None THEN ctx_avg
                            ELSE IF league_avg # None THEN league_avg ELSE comp_sum))
    IN PyMax(LAMBDA_LO, PyMin(lam, LAMBDA_HI))

\* int(round(100.0 - 200.0 * math.exp(-lam))) steps from k - 1 to k where lam
\* passes ln(200 / (100.5 - k)); the steps for k = -63 .. 99, in millionths,
\* rounded up
INTEREST_STEPS ==
    <<
       201505, 207640, 213813, 220024, 226274, 232563, 238892, 245262,
       251672, 258124, 264617, 271153, 277732, 284355, 291021, 297733,
       304490, 311292, 318142, 325038, 331983, 338976, 346018, 353110,
       360253, 367448, 374694, 381993, 389346, 396754, 404216, 411735,
       419311, 426945, 434637, 442389, 450202, 458076, 466012, 474012,
       482077, 490207, 498404, 506668, 515001, 523405, 531880, 540427,
       549047, 557743, 566515, 575365, 584293, 593302, 602393, 611568,
       620827, 630173, 639607, 649131, 658746, 668455, 678259, 688160,
       698160, 708261, 718465, 728775, 739192, 749718, 760356, 771109,
       781979, 792968, 804079, 815315, 826679, 838173, 849801, 861566,
       873471, 885520, 897715, 910061, 922561, 935219, 948040, 961027,
       974185, 987519, 1001032, 1014731, 1028620, 1042705, 1056991, 1071484,
       1086190, 1101116, 1116268, 1131653, 1147278, 1163151, 1179281, 1195675,
       1212342, 1229291, 1246533, 1264077, 1281935, 1300117, 1318636, 1337505,
       1356736, 1376345, 1396345, 1416754, 1437588, 1458866, 1480606, 1502829,
       1525557, 1548814, 1572624, 1597016, 1622017, 1647660, 1673977, 1701006,
       1728785, 1757359, 1786772, 1817078, 1848330, 1880591, 1913928, 1948414,
       1984132, 2021173, 2059639, 2099645, 2141317, 2184803, 2230265, 2277893,
       2327903, 2380547, 2436117, 2494957, 2557478, 2624169, 2695628, 2772589,
       2855971, 2946943, 3047026, 3158252, 3283415, 3426516, 3593570, 3794240,
       4045555, 4382027, 4892853
    >>

\* int(round(100.0 - 200.0 * p0)) for lam in [0.2, 5.0]
rounded_interest(lam) ==
    Cardinality({ i \in 1..Len(INTEREST_STEPS) :
                    INTEREST_STEPS[i] * lam[2] <= lam[1] * 1000000 }) - 64

\* mutant: the score is not clamped
clamp_score_off(score) == score

\* max(0, min(score, 100))
clamp_score(score) ==
    LET low == IF 100 < score THEN 100 ELSE score
    IN IF low > 0 THEN low ELSE 0

\* the score block.  zero_zero_prob_pct, round(100.0 * p0, 1), is kept as the
\* lam it is computed from.
score_of(insights) ==
    IF comp_sum_of(insights) # None
    THEN [ score |-> Some(clamp_score(rounded_interest(lam_of(insights)))),
           zero_zero_prob_pct |-> Some(lam_of(insights)) ]
    ELSE [ score |-> None, zero_zero_prob_pct |-> None ]

PARIS == <<"paris">>

MAN_UNITED == <<"man", " ", "united">>

MILAN == <<"milan">>

INTER == <<"inter">>

\* what enrich_events_with_competitors and fetch_event_detail give for the
\* event ids "1" .. "4": the raw names and the slug hint.  Event 3 has no away
\* name; the detail of event 4 carries a number where the slug is expected.
EVENTS ==
    << [ home_name |-> <<"psg", " ", "F", "C">>, away_name |-> <<"man", "-", "utd">>,
         full_slug |-> SlugStr(<<"sport", "football", "leagues",
                                 "england-premier-league", "psg-vs-man-utd">>) ],
       [ home_name |-> <<"psg">>, away_name |-> <<"man", " ", "utd">>,
         full_slug |-> SlugNone ],
       [ home_name |-> <<"psg">>, away_name |-> <<>>,
         full_slug |-> SlugNone ],
       [ home_name |-> <<"psg">>, away_name |-> <<"man", " ", "utd">>,
         full_slug |-> SlugInt ] >>

\* "if not home or not away or df.empty"
fixture_skipped(df, eid) ==
    EVENTS[eid].home_name = <<>> \/ EVENTS[eid].away_name = <<>> \/ df = <<>>

\* build_match_insights is called outside every try ... except of the loop
fixture_raises(df, eid) ==
    ~fixture_skipped(df, eid) /\ resolve_div_from_slug_raises(EVENTS[eid].full_slug)

\* the entry appended for a fixture whose insights are computed; the fields
\* copied from the event detail untouched (name, start time, team codes) are
\* left out
scored_entry(eid, insights) ==
    [ event_id |-> eid,
      home_name |-> EVENTS[eid].home_name,
      away_name |-> EVENTS[eid].away_name,
      league_div |-> insights.league_div,
      status |-> insights.status,
      home |-> insights.home,
      away |-> insights.away,
      h2h |-> insights.h2h,
      h2h_matches |-> insights.h2h_matches,
      league_scope |-> insights.league_scope ] @@ score_of(insights)

\* one pass of the loop body for a fixture that does not raise
result_entry(df, eid) ==
    LET e == EVENTS[eid]
        home_norm == normalize_team_name(e.home_name)
        away_norm == normalize_team_name(e.away_name)
    IN IF fixture_skipped(df, eid)
       THEN [ event_id |-> eid, insights |-> None, note |-> "missing teams or dataset" ]
       ELSE CHOOSE entry \in
                { scored_entry(eid, insights) : insights \in
                    { build_match_insights(df, home_norm, away_norm, e.full_slug,
                                           None, None) } } : TRUE

RECURSIVE sorted_ids(_)
\* sorted(id_list); the ids are one-digit strings, written as their digit
sorted_ids(id_list) ==
    IF id_list = <<>> THEN <<>>
    ELSE LET least == CHOOSE i \in 1..Len(id_list) :
                          \A j \in 1..Len(id_list) : id_list[i] <= id_list[j]
         IN <<id_list[least]>>
            \o sorted_ids(SelectRows(id_list, (1..Len(id_list)) \ {least}))

\* the response of api_match_insights; status 500 is the exception that leaves
\* the handler.  An entry of the cache is [fresh, data]: fresh stands for
\* (now - ts) < _ANALYTICS_TTL_SECS.
api_match_insights(df, insights_cache, id_list) ==
    LET key == sorted_ids(id_list)
    IN IF id_list = <<>> THEN [ status |-> 422 ]
       ELSE IF key \in DOMAIN insights_cache /\ insights_cache[key].fresh
       THEN [ status |-> 200, X_Cache |-> "HIT", data |-> insights_cache[key].data ]
       ELSE IF \E i \in 1..Len(id_list) : fixture_raises(df, id_list[i])
       THEN [ status |-> 500 ]
       ELSE [ status |-> 200, X_Cache |-> "MISS",
              data |-> [ count |-> Len(id_list),
                         results |-> [ i \in 1..Len(id_list) |->
                                         result_entry(df, id_list[i]) ] ] ]

(***************************************************************************)
(* The match insight API applied to batches of fixtures.                   *)
(***************************************************************************)
MaxApiRows == 3

\* a row of the dataset; the half-time scores are not read by the score
ApiRow(div, home, away, fthg, ftag) ==
    [ Div |-> div, date |-> 1, home_norm |-> home, away_norm |-> away,
      FTHG |-> fthg, FTAG |-> ftag, HTHG |-> NaN, HTAG |-> NaN ]

\* full-time scores: missing, goalless, 2-1 and 4-4
ApiRows ==
    { ApiRow("E0", PARIS, MAN_UNITED, NaN, NaN),
      ApiRow("E0", PARIS, MAN_UNITED, 0, 0),
      ApiRow("E0", PARIS, MAN_UNITED, 2, 1),
      ApiRow("E0", PARIS, MAN_UNITED, 4, 4),
      ApiRow("E0", PARIS, MILAN, 2, 1),
      ApiRow("E0", INTER, MAN_UNITED, 2, 1),
      ApiRow("E0", MILAN, INTER, 0, 0),
      ApiRow("E0", MILAN, INTER, NaN, NaN),
      ApiRow(DivNaN, PARIS, MAN_UNITED, 2, 1) }

RECURSIVE SetToSeq(_)
SetToSeq(S) ==
    IF S = {} THEN <<>> ELSE LET x == CHOOSE x \in S : TRUE IN <<x>> \o SetToSeq(S \ {x})

ApiDatasets ==
    { SetToSeq(S) : S \in { T \in SUBSET ApiRows : Cardinality(T) <= MaxApiRows } }

\* the ids parameter of the requests, split at the commas
ApiBatches == { <<>>, <<1, 2>>, <<2, 1>>, <<3>>, <<4, 1>>, <<1, 4>> }

InitApi ==
    /\ InitCache
    /\ InitMerge
    /\ ds \in ApiDatasets
    /\ call = NoCall
    /\ _INSIGHTS_CACHE = <<>>
    /\ InitToggle

CallApiMatchInsights(id_list) ==
    /\ call = NoCall
    /\ call' = [op |-> "api_match_insights", ids |-> id_list,
                out |-> api_match_insights(ds, _INSIGHTS_CACHE, id_list)]
    /\ IF call'.out.status = 200 /\ call'.out.X_Cache = "MISS"
       THEN _INSIGHTS_CACHE' =
                [ k \in DOMAIN _INSIGHTS_CACHE \cup {sorted_ids(id_list)} |->
                    IF k = sorted_ids(id_list)
                    THEN [fresh |-> TRUE, data |-> call'.out.data]
                    ELSE _INSIGHTS_CACHE[k] ]
       ELSE UNCHANGED _INSIGHTS_CACHE
    /\ UNCHANGED ds
    /\ UNCHANGED <<cacheVars, mergeVars, toggleVars>>

\* _ANALYTICS_TTL_SECS pass since a response was cached
TtlElapses(key) ==
    /\ key \in DOMAIN _INSIGHTS_CACHE
    /\ _INSIGHTS_CACHE[key].fresh
    /\ _INSIGHTS_CACHE' = [_INSIGHTS_CACHE EXCEPT ![key].fresh = FALSE]
    /\ UNCHANGED <<ds, call>>
    /\ UNCHANGED <<cacheVars, mergeVars, toggleVars>>

NextApi ==
    \/ \E id_list \in ApiBatches : CallApiMatchInsights(id_list)
    \/ \E key \in DOMAIN _INSIGHTS_CACHE : TtlElapses(key)
    \/ CallReturn

(***************************************************************************)
(* The identity normalizer applied to names.                               *)
(***************************************************************************)
MaxNameLen == 4

NameAtoms == {"f", "c", "F", " ", ".", "-", "&", "e_acute", "psg"}

\* two raw spellings of one club, as two sources write it
ClubSpellings == { <<"Man", " ", "Utd">>, <<"Manchester", " ", "United">> }

Names == UNION { [1..n -> NameAtoms] : n \in 0..MaxNameLen } \cup ClubSpellings

InitNames ==
    /\ InitCache
    /\ InitMerge
    /\ ds = <<>>
    /\ _INSIGHTS_CACHE = <<>>
    /\ InitToggle
    /\ call \in { [op |-> "name", a |-> name, out |-> <<>>] : name \in Names }

\* a raw name from a feed or from an event is normalized
CallNormalizeTeamName ==
    /\ call.op = "name"
    /\ call' = [op |-> "normalize_team_name", a |-> call.a,
                out |-> normalize_team_name(call.a)]
    /\ UNCHANGED ds
    /\ UNCHANGED <<cacheVars, mergeVars, _INSIGHTS_CACHE, toggleVars>>

\* a normalized name is normalized again (a dataset key looked up as a name)
CallNormalizeAgain ==
    /\ call.op = "normalize_team_name"
    /\ call.a # call.out
    /\ call' = [op |-> "normalize_team_name", a |-> call.out,
                out |-> normalize_team_name(call.out)]
    /\ UNCHANGED ds
    /\ UNCHANGED <<cacheVars, mergeVars, _INSIGHTS_CACHE, toggleVars>>

NextNames ==
    \/ CallNormalizeTeamName
    \/ CallNormalizeAgain

(***************************************************************************)
(* The feed loaders applied to raw frames.                                 *)
(***************************************************************************)
MaxRawRows == 2

\* the headers of a Europe sheet and of a world sheet
EuropeColumns ==
    << Header("div", "title"), Header("date", "title"), Header("hometeam", "camel"),
       Header("awayteam", "camel"), Header("fthg", "upper"), Header("ftag", "upper"),
       Header("hthg", "upper"), Header("htag", "upper") >>

WorldColumns ==
    << Header("country", "title"), Header("league", "title"), Header("season", "title"),
       Header("date", "title"), Header("home", "title"), Header("away", "title"),
       Header("hg", "upper"), Header("ag", "upper") >>

\* what a sheet row holds under a header: content gives the date, home and
\* away cells; the league of the row is the same everywhere
RawCell(h, content) ==
    IF h.name \in {"date", "match date", "dateutc"} THEN [col |-> h] @@ content.date
    ELSE IF h.name \in {"hometeam", "home team", "home"} THEN [col |-> h] @@ content.home
    ELSE IF h.name \in {"awayteam", "away team", "away"} THEN [col |-> h] @@ content.away
    ELSE IF h.name \in {"div", "country", "league", "season"}
    THEN [col |-> h, kind |-> "text", v |-> <<h.name>>]
    ELSE [col |-> h, kind |-> "num", v |-> 1]

RawRow(columns, content) ==
    [ h \in { columns[k] : k \in 1..Len(columns) } |-> RawCell(h, content) ]

\* the date cell is a date, a text that is no date, or empty; the home cell is
\* a name, a blank or empty; the away cell is a name or empty
RowContents ==
    { [date |-> d, home |-> h, away |-> a] :
        d \in { [kind |-> "date", v |-> 1], [kind |-> "text", v |-> <<"-">>],
                [kind |-> "nan", v |-> <<>>] },
        h \in { [kind |-> "text", v |-> <<"psg">>], [kind |-> "text", v |-> <<" ">>],
                [kind |-> "nan", v |-> <<>>] },
        a \in { [kind |-> "text", v |-> <<"f", "c">>], [kind |-> "nan", v |-> <<>>] } }

NoLoadCall == [op |-> "none", out |-> <<>>]

InitLoad ==
    /\ InitCache
    /\ InitStats
    /\ feeds = [f \in FeedNames |-> <<>>]
    /\ mcall = NoLoadCall
    /\ sheet \in { [columns |-> c, rows |-> <<>>] : c \in {EuropeColumns, WorldColumns} }

\* the sheet has one more row
AddRawRow(content) ==
    /\ mcall = NoLoadCall
    /\ Len(sheet.rows) < MaxRawRows
    /\ sheet' = [sheet EXCEPT !.rows = Append(@, RawRow(sheet.columns, content))]
    /\ UNCHANGED <<feeds, mcall>>
    /\ UNCHANGED <<cacheVars, statVars>>

\* the world workbooks are the ones with a country column
IsWorldSheet(df) == \E k \in 1..Len(df.columns) : df.columns[k].name = "country"

\* the Europe workbooks go through load_and_normalize
CallLoadAndNormalize ==
    /\ mcall = NoLoadCall
    /\ ~IsWorldSheet(sheet)
    /\ mcall' = [op |-> "load_and_normalize", out |-> load_and_normalize(sheet)]
    /\ UNCHANGED <<feeds, sheet>>
    /\ UNCHANGED <<cacheVars, statVars>>

\* the world workbooks go through load_and_normalize_world
CallLoadAndNormalizeWorld ==
    /\ mcall = NoLoadCall
    /\ IsWorldSheet(sheet)
    /\ mcall' = [op |-> "load_and_normalize_world", out |-> load_and_normalize_world(sheet)]
    /\ UNCHANGED <<feeds, sheet>>
    /\ UNCHANGED <<cacheVars, statVars>>

\* the caller has taken the normalized table
LoaderReturn ==
    /\ mcall # NoLoadCall
    /\ mcall' = NoLoadCall
    /\ UNCHANGED <<feeds, sheet>>
    /\ UNCHANGED <<cacheVars, statVars>>

NextLoad ==
    \/ \E content \in RowContents : AddRawRow(content)
    \/ CallLoadAndNormalize
    \/ CallLoadAndNormalizeWorld
    \/ LoaderReturn

(***************************************************************************)
(* The Europe loader applied to sheets with freeform headers.              *)
(***************************************************************************)
\* headers a workbook may carry: synonyms of the date, the home team, the away
\* team and the full-time home goals, and the half-time home goals in three
\* casings
HeaderPool ==
    { Header("date", "title"), Header("match date", "title"), Header("dateutc", "upper"),
      Header("hometeam", "camel"), Header("home", "title"), Header("awayteam", "camel"),
      Header("fthg", "upper"), Header("hg", "upper"),
      Header("hthg", "upper"), Header("hthg", "lower"), Header("hthg", "title") }

\* a row with a date and both names
FullRow == [ date |-> [kind |-> "date", v |-> 1],
             home |-> [kind |-> "text", v |-> <<"psg">>],
             away |-> [kind |-> "text", v |-> <<"f", "c">>] ]

HeaderSheets ==
    { [columns |-> SetToSeq(H), rows |-> <<RawRow(SetToSeq(H), FullRow)>>] :
        H \in SUBSET HeaderPool }

InitColumns ==
    /\ InitCache
    /\ InitStats
    /\ feeds = [f \in FeedNames |-> <<>>]
    /\ mcall = NoLoadCall
    /\ sheet \in HeaderSheets

NextColumns ==
    \/ CallLoadAndNormalize
    \/ LoaderReturn

(***************************************************************************)
(* The season selection of fetch_world_season_dataset, applied to world    *)
(* season sheets.  The download of the latest-results workbook gives None. *)
(***************************************************************************)
MaxSeasonRows == 3

\* ord() of the characters of the sheets
CharOrd(c) ==
    CASE c = " " -> 32 [] c = "0" -> 48 [] c = "1" -> 49 [] c = "2" -> 50 [] c = "9" -> 57
      [] c = "x" -> 120 [] c = "y" -> 121 [] c = "z" -> 122

RECURSIVE StrLess(_, _)
\* s < t on str
StrLess(s, t) ==
    IF t = <<>> THEN FALSE
    ELSE IF s = <<>> THEN TRUE
    ELSE IF Head(s) = Head(t) THEN StrLess(Tail(s), Tail(t))
    ELSE CharOrd(Head(s)) < CharOrd(Head(t))

\* df_season[col].astype(str).str.strip()
StrippedCell(cell) == [cell EXCEPT !.kind = "text", !.v = StripRight(StripLeft(AsStr(cell)))]

StripSeasonColumns(df) ==
    [ df EXCEPT !.rows =
        [ i \in 1..Len(df.rows) |->
            [ h \in DOMAIN df.rows[i] |->
                IF h \in { Header("country", "title"), Header("league", "title"),
                           Header("season", "title") }
                THEN StrippedCell(df.rows[i][h]) ELSE df.rows[i][h] ] ] ]

GroupKeyOf(row) == <<row[Header("country", "title")].v, row[Header("league", "title")].v>>

SeasonOf(row) == row[Header("season", "title")].v

\* the order in which groupby yields the groups
KeyLess(k1, k2) == StrLess(k1[1], k2[1]) \/ (k1[1] = k2[1] /\ StrLess(k1[2], k2[2]))

\* mutant: the seasons are sorted in ascending order
oldest_2(seasons) ==
    { s \in seasons : Cardinality({ t \in seasons : StrLess(t, s) }) < 2 }

\* sorted(group["Season"].unique(), reverse=True)[:2]
latest_2(seasons) ==
    { s \in seasons : Cardinality({ t \in seasons : StrLess(s, t) }) < 2 }

\* df_filtered: the groups in key order, each with the rows of its latest_2
filter_latest_seasons(df_season) ==
    LET df == StripSeasonColumns(df_season)
        n == Len(df.rows)
        group(i) == { j \in 1..n : GroupKeyOf(df.rows[j]) = GroupKeyOf(df.rows[i]) }
        keys == { GroupKeyOf(df.rows[i]) : i \in 1..n }
        rank(i) == Cardinality({ k \in keys : KeyLess(k, GroupKeyOf(df.rows[i])) })
        keep == { i \in 1..n :
                    SeasonOf(df.rows[i]) \in latest_2({ SeasonOf(df.rows[j]) : j \in group(i) }) }
        kept == SelectRows([i \in 1..n |-> <<rank(i), df.rows[i]>>], keep)
        sorted == SortPairs(kept)
    IN [ columns |-> df.columns, rows |-> [ i \in 1..Len(sorted) |-> sorted[i][2] ] ]

\* fetch_world_season_dataset with df_latest None: the filtered table and what
\* the function returns
fetch_world_season(df_season) ==
    IF df_season.rows = <<>> THEN [ df_filtered |-> EmptyFrame, out |-> <<>> ]
    ELSE LET df_filtered == filter_latest_seasons(df_season)
         IN [ df_filtered |-> df_filtered,
              out |-> IF df_filtered.rows # <<>> THEN load_and_normalize_world(df_filtered)
                      ELSE <<>> ]

\* the countries, leagues and seasons of the sheets; a cell may carry a
\* trailing blank
SeasonLeagues == { <<<<"x">>, <<"y">>>>, <<<<"x", " ">>, <<"y">>>>, <<<<"x">>, <<"z">>>> }

Seasons == { <<"2", "0", "0", "9">>, <<"2", "0", "1", "0">>, <<"2", "0", "1", "1">> }

\* a complete row; the home goals cell carries the number of the row
SeasonRow(country, league, season, d, id) ==
    [ h \in { WorldColumns[k] : k \in 1..Len(WorldColumns) } |->
        IF h.name = "country" THEN [col |-> h, kind |-> "text", v |-> country]
        ELSE IF h.name = "league" THEN [col |-> h, kind |-> "text", v |-> league]
        ELSE IF h.name = "season" THEN [col |-> h, kind |-> "text", v |-> season]
        ELSE IF h.name = "hg" THEN [col |-> h, kind |-> "num", v |-> id]
        ELSE RawCell(h, [FullRow EXCEPT !.date = d]) ]

InitSeasons ==
    /\ InitCache
    /\ InitStats
    /\ feeds = [f \in FeedNames |-> <<>>]
    /\ mcall = NoLoadCall
    /\ sheet = [columns |-> WorldColumns, rows |-> <<>>]

AddSeasonRow(country, league, season, d) ==
    /\ mcall = NoLoadCall
    /\ Len(sheet.rows) < MaxSeasonRows
    /\ sheet' = [sheet EXCEPT !.rows =
                    Append(@, SeasonRow(country, league, season, d, Len(sheet.rows) + 1))]
    /\ UNCHANGED <<feeds, mcall>>
    /\ UNCHANGED <<cacheVars, statVars>>

CallFetchWorldSeason ==
    /\ mcall = NoLoadCall
    /\ mcall' = [op |-> "fetch_world_season_dataset"] @@ fetch_world_season(sheet)
    /\ UNCHANGED <<feeds, sheet>>
    /\ UNCHANGED <<cacheVars, statVars>>

\* the rows the sheet can get: any league and season with a date, and a row of
\* the oldest season without one
SeasonRowKinds ==
    { <<l[1], l[2], season, [kind |-> "date", v |-> 1]>> : l \in SeasonLeagues, season \in Seasons }
    \cup { << <<"x">>, <<"y">>, <<"2", "0", "0", "9">>, [kind |-> "nan", v |-> <<>>] >>,
           << <<"x">>, <<"y">>, <<"2", "0", "1", "1">>, [kind |-> "nan", v |-> <<>>] >> }

NextSeasons ==
    \/ \E k \in SeasonRowKinds : AddSeasonRow(k[1], k[2], k[3], k[4])
    \/ CallFetchWorldSeason
    \/ LoaderReturn

(***************************************************************************)
(* The team selection applied to datasets in which feeds overlap.          *)
(***************************************************************************)
MaxDupRows == 3

\* a hosts b in E0: on the first date 2-1; on the second date 2-1, 0-0 and
\* without a result
DupRows ==
    { [ Div |-> "E0", date |-> g[1], home_norm |-> "a", away_norm |-> "b",
        FTHG |-> g[2], FTAG |-> g[3], HTHG |-> NaN, HTAG |-> NaN ]
      : g \in { <<1, 2, 1>>, <<2, 2, 1>>, <<2, 0, 0>>, <<2, NaN, NaN>> } }

\* a feed delivers a row, which another feed may have delivered already
AddDupRow(r) ==
    /\ call = NoCall
    /\ Len(ds) < MaxDupRows
    /\ IF ds = <<>> THEN TRUE ELSE ds[Len(ds)].date <= r.date
    /\ ds' = Append(ds, r)
    /\ UNCHANGED call
    /\ UNCHANGED <<cacheVars, mergeVars, _INSIGHTS_CACHE, toggleVars>>

NextDup ==
    \/ \E r \in DupRows : AddDupRow(r)
    \/ \E d \in DivFilters, w \in Windows : CallTeamWindow("a", d, w)
    \/ \E d \in DivFilters, w \in Windows : CallTeamStats("a", d, w)
    \/ CallReturn

(***************************************************************************)
(* The outcome buckets applied to high-scoring games.                      *)
(***************************************************************************)
MaxOthersRows == 2

\* a and b meet in E0, at either ground, on one day: 4-1, 1-4, 4-4, 3-3, 5-4,
\* 2-1 or no result
OthersRows ==
    { [ Div |-> "E0", date |-> 1, home_norm |-> f[1], away_norm |-> f[2],
        FTHG |-> g[1], FTAG |-> g[2], HTHG |-> NaN, HTAG |-> NaN ]
      : f \in { <<"a", "b">>, <<"b", "a">> },
        g \in { <<4, 1>>, <<1, 4>>, <<4, 4>>, <<3, 3>>, <<5, 4>>, <<2, 1>>, <<NaN, NaN>> } }

AddOthersRow(r) ==
    /\ call = NoCall
    /\ Len(ds) < MaxOthersRows
    /\ ds' = Append(ds, r)
    /\ UNCHANGED call
    /\ UNCHANGED <<cacheVars, mergeVars, _INSIGHTS_CACHE, toggleVars>>

NextOthers ==
    \/ \E r \in OthersRows : AddOthersRow(r)
    \/ \E t \in {"a", "b"} : CallTeamStats(t, None, None)
    \/ CallLeagueOverview(Some("E0"), None)
    \/ CallReturn

(***************************************************************************)
(* Specifications.                                                         *)
(***************************************************************************)
Init == InitCache /\ InitMerge /\ InitStats

\* the dataset cache under calls and rewrites of the backing files
SpecCache == Init /\ [][NextCache]_vars

SpecCacheConcurrent == Init /\ [][NextCacheConcurrent]_vars

\* the merger over feeds of a few rows
SpecMerge == Init /\ [][NextMerge]_vars

\* the analytics functions over small datasets
SpecStats == Init /\ [][NextStats]_vars

SpecH2H == Init /\ [][NextH2H]_vars

\* compute_team_stats over long histories
SpecWindow == Init /\ [][NextWindow]_vars

\* build_match_insights over small datasets and slug hints
SpecInsights == Init /\ [][NextInsights]_vars

SpecNames == InitNames /\ [][NextNames]_vars

SpecLoad == InitLoad /\ [][NextLoad]_vars

SpecColumns == InitColumns /\ [][NextColumns]_vars

SpecSeasons == InitSeasons /\ [][NextSeasons]_vars

SpecDup == Init /\ [][NextDup]_vars

SpecOthers == Init /\ [][NextOthers]_vars

SpecToggle == Init /\ [][NextToggle]_vars

SpecApi == InitApi /\ [][NextApi]_vars

(***************************************************************************)
(* Properties.                                                             *)
(***************************************************************************)
Count(table, k) == Cardinality({ i \in 1..Len(table) : KeyOf(table[i]) = k })

KeysOf(table) == { KeyOf(table[i]) : i \in 1..Len(table) }

\* the last row of table with key k
LastWithKey(table, k) ==
    table[CHOOSE i \in 1..Len(table) :
            /\ KeyOf(table[i]) = k
            /\ \A j \in (i + 1)..Len(table) : KeyOf(table[j]) # k]

\* C1: for a key that occurs in both base and overlay, the output of
\* dedupe_merge(base, overlay) holds exactly one row with that key, and that
\* row is the overlay's row, field for field (of several overlay rows with the
\* key, the last one).
C1_OverlaySupersedesBase ==
    mcall.op = "dedupe_merge" =>
        LET base == DropNaCore(feeds["cur"])
            overlay == DropNaCore(feeds["latest"])
            out == mcall.out
        IN \A k \in KeysOf(base) \cap KeysOf(overlay) :
               /\ Count(out, k) = 1
               /\ \A i \in 1..Len(out) : KeyOf(out[i]) = k => out[i] = LastWithKey(overlay, k)

\* C1 witness: dedupe_merge has run on a base and an overlay that report the
\* same match with different scores.
C1_Witness ==
    /\ mcall.op = "dedupe_merge"
    /\ \E i \in 1..Len(feeds["cur"]), j \in 1..Len(feeds["latest"]) :
           /\ feeds["cur"][i].date # NaT
           /\ KeyOf(feeds["cur"][i]) = KeyOf(feeds["latest"][j])
           /\ feeds["cur"][i] # feeds["latest"][j]

RowsLetThrough(fs, k) ==
    LET cur_n == DropNaCore(fs["cur"])
        prev_n == DropNaCore(fs["prev"])
        latest_n == DropNaCore(fs["latest"])
        season_n == DropNaCore(fs["wseason"])
        wlatest_n == DropNaCore(fs["wlatest"])
        Once(tables) == IF k \in KeysOf(tables) THEN 1 ELSE 0
    IN (IF cur_n # <<>> THEN Once(cur_n \o latest_n) ELSE Count(latest_n, k))
       + Count(prev_n, k)
       + (IF fs["wseason"] = <<>> THEN 0
          ELSE IF season_n # <<>> /\ wlatest_n # <<>> THEN Once(season_n \o wlatest_n)
          ELSE Count(season_n, k) + Count(wlatest_n, k))

C3_ReturnsCurrentContent ==
    \A t \in Threads :
        (pc[t] = "done" /\ files[lpath[t]].status = "ok")
            => ret[t] = Some(files[lpath[t]].content)

\* C4 as claimed: load_dataset never raises, whatever os.stat and
\* pd.read_parquet meet at the path.
C4_NeverRaises == \A t \in Threads : pc[t] # "raised"

\* C5 as claimed: in every non-empty result of compute_team_stats the wins,
\* draws and losses add up to n.
C5_OutcomesSumToN ==
    (call.op = "compute_team_stats" /\ call.out.n > 0) =>
        call.out.wins_count + call.out.draws_count + call.out.losses_count = call.out.n

\* the rate and percentage fields of the three results
RateFields ==
    { "wins_pct", "wins_others_pct", "draws_pct", "draws_others_pct",
      "losses_pct", "losses_others_pct", "over_0_5_rate", "clean_sheet_rate",
      "goals_share_second_half", "home_ht_2plus_pct", "away_ht_2plus_pct",
      "home_ht_2plus_conceded_pct", "away_ht_2plus_conceded_pct",
      "ht_2plus_to_win_others_pct", "ht_2plus_conceded_to_lost_others_pct",
      "home_ht_2plus_conceded_to_lost_others_pct",
      "away_ht_2plus_conceded_to_lost_others_pct",
      "zero_zero_rate", "home_scored_2plus_pct", "away_scored_2plus_pct",
      "home_win_pct", "home_win_others_pct", "draw_pct", "draw_others_pct",
      "away_win_pct", "away_win_others_pct" }

\* None, or count/denominator with 0 <= count <= denominator and denominator > 0
IsRate(v) == v = None \/ (Len(v) = 2 /\ 0 <= v[1] /\ v[1] <= v[2] /\ v[2] > 0)

\* C6: every rate field of a compute_team_stats, compute_h2h or
\* compute_league_overview result is None or count/denominator with
\* 0 <= count <= denominator; no field is a quotient with denominator 0.
C6_RatesInUnitIntervalOrNone ==
    call.op \in {"compute_team_stats", "compute_h2h", "compute_league_overview"} =>
        \A f \in RateFields \cap DOMAIN call.out : IsRate(call.out[f])

\* C6 witness: a non-empty compute_team_stats result in which the team scored
\* no goal (the second-half share has denominator 0 and is None) next to rates
\* that are defined.
C6_Witness ==
    /\ call.op = "compute_team_stats"
    /\ call.out.n > 0
    /\ call.out.goals_share_second_half = None
    /\ call.out.home_ht_2plus_pct = None
    /\ call.out.draws_pct # None

\* the keys of a non-empty compute_team_stats result
TeamStatsKeys == DOMAIN TeamStatsOf(<<BulkRow(1)>>, "a", None)

\* C7 as claimed: the default record of compute_team_stats for an empty window
\* has every key of a non-empty result.
C7_EmptyRecordHasEveryKey ==
    (call.op = "compute_team_stats" /\ call.out.n = 0) =>
        DOMAIN call.out = TeamStatsKeys

Min(x, y) == IF x < y THEN x ELSE y

IsPrefix(s, t) == Len(s) <= Len(t) /\ SubSeq(t, 1, Len(s)) = s

DescendingDates(s) == \A i \in 1..(Len(s) - 1) : s[i].date >= s[i + 1].date

\* C9: for windows 0 < N <= M the rows selected for N are a prefix of the rows
\* selected for M and of the unlimited selection, which is in descending date
\* order; for the team selection and for the H2H fixture list.
C9_WindowIsPrefix ==
    (call.op \in {"team_window", "compute_h2h_matches"} /\ call.w # None /\ call.w[1] > 0) =>
        LET Selected(w) ==
                IF call.op = "team_window"
                THEN _last_n(_team_matches(ds, call.a, call.div), w)
                ELSE compute_h2h_matches(ds, call.a, call.b, w)
        IN /\ DescendingDates(Selected(None))
           /\ IsPrefix(call.out, Selected(None))
           /\ \A M \in call.w[1]..(MaxWindow + 1) : IsPrefix(call.out, Selected(Some(M)))

\* C9 witness: a window of one match cut a team's selection of at least two.
C9_Witness ==
    /\ call.op = "team_window"
    /\ call.w = Some(1)
    /\ Len(call.out) = 1
    /\ Len(_team_matches(ds, call.a, call.div)) >= 2

\* C10: compute_h2h and compute_h2h_matches give the same result for both
\* orders of the two teams.
C10_H2HSymmetric ==
    /\ call.op = "compute_h2h" => call.out = compute_h2h(ds, call.b, call.a, call.w)
    /\ call.op = "compute_h2h_matches" =>
           call.out = compute_h2h_matches(ds, call.b, call.a, call.w)

\* C10 witness: compute_h2h has aggregated meetings at both venues.
C10_Witness ==
    /\ call.op = "compute_h2h"
    /\ call.a # call.b
    /\ call.out.n >= 2
    /\ \E i, j \in 1..Len(ds) :
           /\ ds[i].home_norm = call.a /\ ds[i].away_norm = call.b
           /\ ds[j].home_norm = call.b /\ ds[j].away_norm = call.a

\* the total goals of the items of a fixture list, NaN where a score is None
ListTotals(list) ==
    [ i \in 1..Len(list) |->
        IF list[i].FTHG = None \/ list[i].FTAG = None THEN NaN
        ELSE list[i].FTHG[1] + list[i].FTAG[1] ]

\* C11: for the same dataset, pair and window the fixture list of
\* compute_h2h_matches is the rows compute_h2h aggregates: its length is the n
\* of compute_h2h (empty exactly when n is 0), and the totals of its items
\* give compute_h2h's zero_zero_rate and avg_total_goals.
C11_FixtureListMatchesH2H ==
    call.op = "compute_h2h" =>
        LET list == compute_h2h_matches(ds, call.a, call.b, call.w)
            totals == ListTotals(list)
            zeros == Cardinality({ i \in 1..Len(list) : totals[i] = 0 })
        IN /\ Len(list) = call.out.n
           /\ (list = <<>>) <=> (call.out.n = 0)
           /\ call.out.n > 0 =>
                /\ call.out.zero_zero_rate = <<zeros, Len(list)>>
                /\ call.out.avg_total_goals = <<SumSkipNa(totals), CountNotNa(totals)>>

\* C11 witness: compute_h2h ran with a window that cut the pair's meetings, one
\* of which was goalless.
C11_Witness ==
    /\ call.op = "compute_h2h"
    /\ call.w = Some(1)
    /\ call.out.n = 1
    /\ call.out.zero_zero_rate = <<1, 1>>
    /\ Len(_pair_rows(ds, call.a, call.b)) >= 2

\* the rows of the dataset where the pair met at either venue, newest first,
\* cut to a positive window
MeetingRows ==
    LET met == SelectRows(ds, { i \in 1..Len(ds) :
                   {ds[i].home_norm, ds[i].away_norm} = {call.a, call.b}
                   /\ ds[i].home_norm # ds[i].away_norm })
        sorted == SortByDateDesc(met)
    IN IF call.w # None /\ call.w[1] > 0 /\ call.w[1] < Len(sorted)
       THEN SubSeq(sorted, 1, call.w[1]) ELSE sorted

\* the rows of MeetingRows without goals (total 0), and the sum of the known totals
MeetingZeroZero ==
    Cardinality({ i \in 1..Len(MeetingRows) :
        MeetingRows[i].FTHG = 0 /\ MeetingRows[i].FTAG = 0 })

MeetingTotals == [ i \in 1..Len(MeetingRows) |-> Plus(MeetingRows[i].FTHG, MeetingRows[i].FTAG) ]

\* the dataset {a 2-1 b on day 1, a 0-0 b on day 2}
ScenarioRows ==
    << [ Div |-> "E0", date |-> 1, home_norm |-> "a", away_norm |-> "b",
         FTHG |-> 2, FTAG |-> 1, HTHG |-> NaN, HTAG |-> NaN ],
       [ Div |-> "E0", date |-> 2, home_norm |-> "a", away_norm |-> "b",
         FTHG |-> 0, FTAG |-> 0, HTHG |-> 0, HTAG |-> 0 ] >>

KnownLeagueHints ==
    { <<SlugStr(<<"sport", "football", "leagues", "england-championship", "a-vs-b">>), "E1">>,
      <<SlugStr(<<"Sport", "Football", "Leagues", "England-Premier-League", "a-vs-b">>), "E0">> }

\* C13: when the slug hint resolves to a known league code, that code is the
\* single league scope: league_scope has the one entry of that code, status is
\* "event-league-scope" and both teams' statistics are those of
\* compute_team_stats with the code as league filter, whatever leagues the
\* teams' histories hold.
C13_EventLeagueIsTheScope ==
    call.op = "build_match_insights" =>
        /\ \A k \in KnownLeagueHints :
               call.full_slug = k[1] => call.out.league_div = Some(k[2])
        /\ call.out.league_div # None =>
               /\ call.out.status = "event-league-scope"
               /\ Len(call.out.league_scope) = 1
               /\ call.out.league_scope[1].type = "event"
               /\ call.out.league_scope[1].div = call.out.league_div[1]
               /\ call.out.home = compute_team_stats(ds, call.a, call.out.league_div, call.w)
               /\ call.out.away = compute_team_stats(ds, call.b, call.out.league_div, call.w)
               /\ \A i \in 1..Len(ds) :
                      (call.a \in {ds[i].home_norm, ds[i].away_norm}
                       /\ ds[i].Div = call.out.league_div[1]) => call.out.home.n > 0

\* C13 witness: the hint names the Premier League (E0) while every match of the
\* home team in the dataset is in another league.
C13_Witness ==
    /\ call.op = "build_match_insights"
    /\ call.out.league_div = Some("E0")
    /\ call.out.status = "event-league-scope"
    /\ call.out.home.n = 0
    /\ \E i \in 1..Len(ds) : call.a \in {ds[i].home_norm, ds[i].away_norm} /\ ds[i].Div = "E1"

\* the league codes of the most recent rows of a team that have a league code
LatestDivs(team) ==
    LET own == { i \in 1..Len(ds) :
                   team \in {ds[i].home_norm, ds[i].away_norm} /\ ds[i].Div # DivNaN }
    IN { ds[i].Div : i \in { j \in own : \A k \in own : ds[k].date <= ds[j].date } }

\* C14: when the hint resolves to no code, each team's scope is the league code
\* of its most recent row that has one; the same code for both gives one scope
\* and "same-latest-league", two different codes give two scopes, home first,
\* and "per-team-latest-league", no code for either gives no scope and
\* "no-league-scope".
C14_LatestLeaguePerTeam ==
    (call.op = "build_match_insights" /\ call.out.league_div = None) =>
        LET H == LatestDivs(call.a)
            A == LatestDivs(call.b)
            scope == call.out.league_scope
        IN /\ (H = {} /\ A = {}) =>
                  scope = <<>> /\ call.out.status = "no-league-scope"
           /\ (H # {} /\ A # {}) =>
                  \E h \in H, a \in A :
                      /\ call.out.home.league_div = Some(h)
                      /\ call.out.away.league_div = Some(a)
                      /\ h = a => /\ Len(scope) = 1
                                  /\ scope[1].div = h
                                  /\ call.out.status = "same-latest-league"
                      /\ h # a => /\ Len(scope) = 2
                                  /\ scope[1].type = "home" /\ scope[1].div = h
                                  /\ scope[2].type = "away" /\ scope[2].div = a
                                  /\ call.out.status = "per-team-latest-league"

\* C14 witness: without a usable hint the two teams' latest leagues differ, and
\* the home team has an older match in another league.
C14_Witness ==
    /\ call.op = "build_match_insights"
    /\ call.out.league_div = None
    /\ call.out.status = "per-team-latest-league"
    /\ Len(call.out.league_scope) = 2
    /\ \E i \in 1..Len(ds) :
           /\ call.a \in {ds[i].home_norm, ds[i].away_norm}
           /\ ds[i].Div \notin {DivNaN, call.out.league_scope[1].div}

\* C15: the h2h and h2h_matches parts of a build_match_insights result are the
\* same for every slug hint, and without an h2h window they count the pair's
\* meetings in every league of the dataset.
C15_H2HIgnoresScope ==
    call.op = "build_match_insights" =>
        LET met == { i \in 1..Len(ds) :
                       {ds[i].home_norm, ds[i].away_norm} = {call.a, call.b} }
        IN /\ \A slug \in SlugHints :
                  LET other == build_match_insights(ds, call.a, call.b, slug,
                                                    call.w, call.h2h_max)
                  IN /\ other.h2h = call.out.h2h
                     /\ other.h2h_matches = call.out.h2h_matches
           /\ call.h2h_max = None =>
                  /\ call.out.h2h.n = Cardinality(met)
                  /\ Len(call.out.h2h_matches) = Cardinality(met)

\* C15 witness: the scope is the event's league E1 and the pair has met in E0
\* as well; both meetings are in h2h.
C15_Witness ==
    /\ call.op = "build_match_insights"
    /\ call.out.league_div = Some("E1")
    /\ call.h2h_max = None
    /\ call.out.h2h.n = 2
    /\ \E i, j \in 1..Len(ds) :
           /\ {ds[i].home_norm, ds[i].away_norm} = {call.a, call.b}
           /\ {ds[j].home_norm, ds[j].away_norm} = {call.a, call.b}
           /\ ds[i].Div = "E0" /\ ds[j].Div = "E1"

\* the entries of the last response of api_match_insights that carry a score
ScoredEntries ==
    IF call.op = "api_match_insights" /\ call.out.status = 200
    THEN { call.out.data.results[i] : i \in
             { j \in 1..Len(call.out.data.results) :
                 "score" \in DOMAIN call.out.data.results[j] } }
    ELSE {}

\* a mean that exists: the key is there and at least one cell was not missing
Available(v) == v # None /\ v[2] # 0

ClampTo(f, lo, hi) == IF FloatLt(f, lo) THEN lo ELSE IF FloatLt(hi, f) THEN hi ELSE f

LeagueMean(e) ==
    IF Len(e.league_scope) > 0 THEN Get(e.league_scope[1], "avg_total_goals") ELSE None

\* 0.6*S + 0.2*L + 0.2*H clamped to [0.2, 5.0]
BlendOf(S, L, H) ==
    ClampTo(FloatAdd(FloatAdd(FloatMul(<<3, 5>>, S), FloatMul(<<1, 5>>, L)),
                     FloatMul(<<1, 5>>, H)),
            LAMBDA_LO, LAMBDA_HI)

\* C16: with both teams' goal averages g_home and g_away clamped to [0.2, 3.0]
\* and S = g_home + g_away, lambda = 0.6*S + 0.2*L + 0.2*H clamped to
\* [0.2, 5.0], where L is the mean total goals of the first scope if present
\* and S otherwise, and H is the H2H mean total goals if present, otherwise the
\* league mean if present, otherwise S.
C16_LambdaBlend ==
    \A e \in ScoredEntries :
        Available(e.home.avg_goals_scored) /\ Available(e.away.avg_goals_scored) =>
            LET S == FloatAdd(ClampTo(FloatOf(e.home.avg_goals_scored), GOALS_LO, GOALS_HI),
                              ClampTo(FloatOf(e.away.avg_goals_scored), GOALS_LO, GOALS_HI))
                league == LeagueMean(e)
                h2h == Get(e.h2h, "avg_total_goals")
                L == IF Available(league) THEN FloatOf(league) ELSE S
                H == IF Available(h2h) THEN FloatOf(h2h) ELSE L
            IN e.zero_zero_prob_pct = Some(BlendOf(S, L, H))

\* lambdas 0.2, 0.3, ..., 5.0
LambdaGrid == { <<k, 10>> : k \in 2..50 }

\* C17: a returned score is an integer in 0..100 equal to
\* clamp(round(100 - 200*e^(-lambda)), 0, 100); lambda = 0.2 gives 0 and
\* lambda = 5.0 gives 99; of two fixtures the one with the larger lambda never
\* has the smaller score, and the score of a fixture lies between the scores
\* of the grid lambdas below and above its own.
C17_ScoreOfLambda ==
    \A e \in ScoredEntries :
        e.score # None =>
            LET lam == e.zero_zero_prob_pct[1]
                raw == rounded_interest(lam)
            IN /\ e.score[1] \in 0..100
               /\ e.score[1] = IF raw < 0 THEN 0 ELSE IF raw > 100 THEN 100 ELSE raw
               /\ lam = <<1, 5>> => e.score[1] = 0
               /\ lam = <<5, 1>> => e.score[1] = 99
               /\ \A f \in ScoredEntries :
                      f.score # None /\ ~FloatLt(lam, f.zero_zero_prob_pct[1]) =>
                          f.score[1] <= e.score[1]
               /\ \A g \in LambdaGrid :
                      /\ ~FloatLt(lam, g) => clamp_score(rounded_interest(g)) <= e.score[1]
                      /\ ~FloatLt(g, lam) => e.score[1] <= clamp_score(rounded_interest(g))

\* a response with a fixture whose blend exceeds 5.0: lambda is 5.0 and the
\* score 99
C17_Witness ==
    \E e \in ScoredEntries :
        /\ e.score = Some(99)
        /\ e.zero_zero_prob_pct = Some(<<5, 1>>)
        /\ e.h2h.avg_total_goals = <<8, 1>>

\* C18: when both teams' goal averages are unavailable the league mean takes
\* the place of g_home + g_away; when the league mean is unavailable too, score
\* and zero_zero_prob_pct are None; the entry of the fixture is emitted in
\* every case.
C18_FallThroughLeagueMean ==
    /\ \A e \in ScoredEntries :
           ~Available(e.home.avg_goals_scored) /\ ~Available(e.away.avg_goals_scored) =>
               LET league == LeagueMean(e)
                   h2h == Get(e.h2h, "avg_total_goals")
                   L == FloatOf(league)
               IN IF Available(league)
                  THEN e.zero_zero_prob_pct =
                           Some(BlendOf(L, L, IF Available(h2h) THEN FloatOf(h2h) ELSE L))
                  ELSE e.score = None /\ e.zero_zero_prob_pct = None
    /\ call.op = "api_match_insights" /\ call.out.status = 200 =>
           \A i \in 1..Len(call.out.data.results) :
               LET e == call.out.data.results[i]
               IN "insights" \notin DOMAIN e =>
                      "score" \in DOMAIN e /\ "zero_zero_prob_pct" \in DOMAIN e

\* C19: a failure while one fixture is computed does not abort the batch: the
\* response to a request for at least one fixture holds one result entry for
\* every requested fixture.
C19_OneEntryPerFixture ==
    call.op = "api_match_insights" /\ call.ids # <<>> =>
        /\ call.out.status = 200
        /\ call.out.data.count = Len(call.ids)
        /\ Len(call.out.data.results) = Len(call.ids)
        /\ { call.out.data.results[i].event_id : i \in 1..Len(call.ids) }
               = { call.ids[i] : i \in 1..Len(call.ids) }

\* C20: normalize_team_name is idempotent: normalizing a normalized name
\* gives the same name; and no value of the alias table is a key of the
\* table or holds one of the club-suffix tokens.
AliasKeys == { TEAM_ALIASES[i][1] : i \in 1..Len(TEAM_ALIASES) }

AliasValues == { TEAM_ALIASES[i][2] : i \in 1..Len(TEAM_ALIASES) }

C20_NormalizeIdempotent ==
    /\ call.op = "normalize_team_name" =>
           normalize_team_name(call.out) = call.out
    /\ \A v \in AliasValues :
           /\ v \notin AliasKeys
           /\ \A i \in 1..Len(SplitWords(v)) : SplitWords(v)[i] \notin CLUB_SUFFIXES

\* a name whose suffix token is spelt with a capital and whose remainder is
\* an alias key has been normalized to the alias value
C20_Witness ==
    /\ call.op = "normalize_team_name"
    /\ call.a = <<"psg", " ", "F", "c">>
    /\ call.out = <<"paris">>

\* C21: the raw spellings "Man Utd" and "Manchester United" canonicalize to
\* the same key.
C21_SpellingsShareKey ==
    (call.op = "normalize_team_name" /\ call.a = <<"Man", " ", "Utd">>) =>
        call.out = normalize_team_name(<<"Manchester", " ", "United">>)

\* C22: the feed loaders keep exactly the sheet rows that have a date, a home
\* name and an away name, in sheet order and cell for cell; no kept row lacks
\* one of the three.
C22_NoRowWithoutDateOrNames ==
    mcall.op \in {"load_and_normalize", "load_and_normalize_world"} =>
        LET kept == { i \in 1..Len(sheet.rows) :
                        \A h \in DOMAIN sheet.rows[i] :
                            /\ h.name = "date" => sheet.rows[i][h].kind = "date"
                            /\ h.name \in {"hometeam", "home", "awayteam", "away"}
                                  => sheet.rows[i][h].kind # "nan" }
            src == SelectRows([i \in 1..Len(sheet.rows) |-> i], kept)
        IN /\ Len(mcall.out) = Cardinality(kept)
           /\ \A k \in 1..Len(mcall.out) :
                  /\ mcall.out[k].date # NaT
                  /\ mcall.out[k].HomeTeam.kind = "text"
                  /\ mcall.out[k].AwayTeam.kind = "text"
                  /\ mcall.out[k].Date = sheet.rows[src[k]][mcall.out[k].Date.col]
                  /\ mcall.out[k].HomeTeam = sheet.rows[src[k]][mcall.out[k].HomeTeam.col]
                  /\ mcall.out[k].AwayTeam = sheet.rows[src[k]][mcall.out[k].AwayTeam.col]

\* a sheet of two rows, the first without a home name, of which the loader
\* kept the second
C22_Witness ==
    /\ mcall.op \in {"load_and_normalize", "load_and_normalize_world"}
    /\ Len(sheet.rows) = 2
    /\ Len(mcall.out) = 1
    /\ \E h \in DOMAIN sheet.rows[1] :
          h.name \in {"hometeam", "home"} /\ sheet.rows[1][h].kind = "nan"
    /\ \A h \in DOMAIN sheet.rows[1] : h.name = "date" => sheet.rows[1][h].kind = "date"

\* the output cell of a logical field
FieldCell(row, f) ==
    CASE f = "date" -> row.Date
      [] f = "time" -> row.Time
      [] f = "home" -> row.HomeTeam
      [] f = "away" -> row.AwayTeam
      [] f = "div"  -> row.Div
      [] f = "fthg" -> row.FTHG
      [] f = "ftag" -> row.FTAG
      [] f = "hthg" -> row.HTHG
      [] f = "htag" -> row.HTAG

\* the field is read from a column whose header is, ignoring case, the first
\* synonym present among the headers, or from nowhere when none is present (the
\* default header is then absent as well: in lower case it is a synonym)
ReadsFirstSynonym(df, row, f) ==
    LET present == { j \in 1..Len(SYNONYMS[f]) :
                       \E k \in 1..Len(df.columns) : df.columns[k].name = SYNONYMS[f][j] }
    IN IF present = {} THEN FieldCell(row, f) = MissingCell
       ELSE LET first == CHOOSE j \in present : \A i \in present : j <= i
            IN /\ FieldCell(row, f).col.name = SYNONYMS[f][first]
               /\ \E k \in 1..Len(df.columns) : df.columns[k] = FieldCell(row, f).col

\* C26: load_and_normalize reads every logical field, the half-time goals
\* included, from the column whose header equals the first present synonym
\* ignoring case, whatever the casing of the header.
C26_FirstSynonymAnyCasing ==
    mcall.op = "load_and_normalize" =>
        \A k \in 1..Len(mcall.out) : \A f \in DOMAIN SYNONYMS :
            ReadsFirstSynonym(sheet, mcall.out[k], f)

\* the year a season label starts with
YearOf(season) ==
    LET d(c) == CharOrd(c) - 48
    IN 1000 * d(season[1]) + 100 * d(season[2]) + 10 * d(season[3]) + d(season[4])

\* the league a sheet row belongs to, blanks aside
PairOf(row) ==
    LET letters(str) == SelectSeq(str, LAMBDA c : c # " ")
    IN <<letters(row[Header("country", "title")].v), letters(row[Header("league", "title")].v)>>

\* the numbers of the sheet rows whose season is one of the two most recent of
\* their league
RecentRows ==
    { i \in 1..Len(sheet.rows) :
        Cardinality({ YearOf(SeasonOf(sheet.rows[j])) : j \in
            { j \in 1..Len(sheet.rows) :
                /\ PairOf(sheet.rows[j]) = PairOf(sheet.rows[i])
                /\ YearOf(SeasonOf(sheet.rows[j])) > YearOf(SeasonOf(sheet.rows[i])) } }) < 2 }

\* C29: of the world season sheet exactly the rows of each league's two most
\* recent seasons are retained before normalization, each once, and no row of
\* an older season reaches the normalized world table.
C29_TwoLatestSeasonsPerLeague ==
    mcall.op = "fetch_world_season_dataset" =>
        /\ Len(mcall.df_filtered.rows) = Cardinality(RecentRows)
        /\ { mcall.df_filtered.rows[k][Header("hg", "upper")].v :
               k \in 1..Len(mcall.df_filtered.rows) } = RecentRows
        /\ \A k \in 1..Len(mcall.out) : mcall.out[k].FTHG.v \in RecentRows

\* three seasons of one league, the oldest in the last row: the first two rows
\* are retained and normalized
C29_Witness ==
    /\ mcall.op = "fetch_world_season_dataset"
    /\ Len(sheet.rows) = 3
    /\ RecentRows = {1, 2}
    /\ PairOf(sheet.rows[1]) = PairOf(sheet.rows[3])
    /\ sheet.rows[1][Header("country", "title")].v # sheet.rows[3][Header("country", "title")].v
    /\ Len(mcall.out) = 2

\* no row of the dataset has half-time goals
NoHalfTimeData == \A i \in 1..Len(ds) : IsNaN(ds[i].HTHG) /\ IsNaN(ds[i].HTAG)

\* C25: when no row considered has half-time goals, the "2+ goals by
\* half-time" rates of compute_league_overview and of compute_team_stats are
\* None rather than 0.
C25_NoHalfTimeRatesUndefined ==
    /\ (call.op = "compute_league_overview" /\ call.out.n > 0 /\ NoHalfTimeData) =>
           /\ call.out.home_ht_2plus_pct = None
           /\ call.out.away_ht_2plus_pct = None
    /\ (call.op = "compute_team_stats" /\ call.out.n > 0 /\ NoHalfTimeData) =>
           /\ call.out.home_ht_2plus_pct = None
           /\ call.out.away_ht_2plus_pct = None
           /\ call.out.home_ht_2plus_conceded_pct = None
           /\ call.out.away_ht_2plus_conceded_pct = None

\* the distinct matches of the team asked for: its rows in the league asked
\* for, told apart by league, date, names and full-time score
DistinctMatches ==
    { DupKey(ds[i]) : i \in { i \in 1..Len(ds) :
        /\ ds[i].home_norm = call.a \/ ds[i].away_norm = call.a
        /\ Truthy(call.div) => ds[i].Div = call.div[1] } }

\* the number of rows a window leaves of that many
WindowOf(full) ==
    IF call.w # None /\ call.w[1] > 0 /\ call.w[1] < full THEN call.w[1] ELSE full

\* C27: the team selection holds every distinct match once, rows equal on
\* league, date, names and full-time score being one match and rows of one day
\* with different scores two; the window is filled with distinct matches and n
\* counts them.
C27_DuplicatesCollapsedBeforeWindow ==
    /\ call.op = "team_window" =>
           /\ Len(call.out) = WindowOf(Cardinality(DistinctMatches))
           /\ \A i, j \in 1..Len(call.out) :
                  DupKey(call.out[i]) = DupKey(call.out[j]) => i = j
           /\ \A i \in 1..Len(call.out) : DupKey(call.out[i]) \in DistinctMatches
    /\ call.op = "compute_team_stats" =>
           call.out.n = WindowOf(Cardinality(DistinctMatches))

\* a match delivered twice and an older one: a window of two holds both matches
C27_Witness ==
    /\ call.op = "team_window"
    /\ call.w = Some(2)
    /\ Len(ds) = 3
    /\ ds[2] = ds[3]
    /\ ds[1] # ds[2]
    /\ Len(call.out) = 2
    /\ call.out[2] = ds[1]

\* the goals of a match for and against the team asked for; a match is
\* <<league, date, home, away, home goals, away goals>>
GoalsFor(m) == IF m[3] = call.a THEN m[5] ELSE m[6]

GoalsAgainst(m) == IF m[3] = call.a THEN m[6] ELSE m[5]

\* the matches with both scores known
Played(matches) == { m \in matches : m[5] # NaN /\ m[6] # NaN }

\* C28: wins_others counts the wins with at least 4 goals for, losses_others
\* the losses with at least 4 against, draws_others the draws with at least 4
\* each, goals taken from the side the team played on; no others count exceeds
\* the count of its outcome; compute_league_overview counts by the same rule
\* with the home side as the team.  (Stated for calls without a window.)
C28_OthersBuckets ==
    /\ (call.op = "compute_team_stats" /\ call.w = None /\ call.out.n > 0) =>
           LET ms == Played(DistinctMatches)
           IN /\ call.out.wins_others_count = Cardinality({ m \in ms :
                      GoalsFor(m) > GoalsAgainst(m) /\ GoalsFor(m) >= 4 })
              /\ call.out.losses_others_count = Cardinality({ m \in ms :
                      GoalsFor(m) < GoalsAgainst(m) /\ GoalsAgainst(m) >= 4 })
              /\ call.out.draws_others_count = Cardinality({ m \in ms :
                      GoalsFor(m) = GoalsAgainst(m) /\ GoalsFor(m) >= 4 /\ GoalsAgainst(m) >= 4 })
              /\ call.out.wins_others_count <= call.out.wins_count
              /\ call.out.draws_others_count <= call.out.draws_count
              /\ call.out.losses_others_count <= call.out.losses_count
    /\ (call.op = "compute_league_overview" /\ call.w = None /\ call.out.n > 0) =>
           LET rs == { i \in 1..Len(ds) : ds[i].Div = call.div[1]
                          /\ ds[i].FTHG # NaN /\ ds[i].FTAG # NaN }
           IN /\ call.out.home_win_others_count = Cardinality({ i \in rs :
                      ds[i].FTHG > ds[i].FTAG /\ ds[i].FTHG >= 4 })
              /\ call.out.away_win_others_count = Cardinality({ i \in rs :
                      ds[i].FTHG < ds[i].FTAG /\ ds[i].FTAG >= 4 })
              /\ call.out.draw_others_count = Cardinality({ i \in rs :
                      ds[i].FTHG = ds[i].FTAG /\ ds[i].FTHG >= 4 })
              /\ call.out.home_win_others_count <= call.out.home_win_count
              /\ call.out.draw_others_count <= call.out.draw_count
              /\ call.out.away_win_others_count <= call.out.away_win_count

\* the team lost 1-4 away and drew 4-4: one loss in others, one draw in
\* others, no win
C28_Witness ==
    /\ call.op = "compute_team_stats"
    /\ call.a = "a"
    /\ call.out.n = 2
    /\ \E i \in 1..Len(ds) : ds[i].home_norm = "b" /\ ds[i].FTHG = 4 /\ ds[i].FTAG = 1
    /\ call.out.losses_others_count = 1
    /\ call.out.draws_others_count = 1
    /\ call.out.wins_count = 0

\* the codes of the entries of league_scope
ScopeDivs == { call.out.league_scope[k].div : k \in 1..Len(call.out.league_scope) }

\* every entry of league_scope counts all rows of its league, whatever the
\* windows of the call
ScopeCoversLeague ==
    \A k \in 1..Len(call.out.league_scope) :
        call.out.league_scope[k].n =
            Cardinality({ i \in 1..Len(ds) : ds[i].Div = call.out.league_scope[k].div })

\* C30 as claimed: league_scope is empty iff the status is "no-league-scope",
\* has one entry under "event-league-scope" and "same-latest-league", and has
\* two entries with distinct codes under "per-team-latest-league", also when
\* only one team resolves to a league; every entry carries the league overview
\* over all rows.
C30_StatusAgreesWithScope ==
    call.op = "build_match_insights" =>
        /\ call.out.league_scope = <<>> <=> call.out.status = "no-league-scope"
        /\ call.out.status \in {"event-league-scope", "same-latest-league"} =>
               Len(call.out.league_scope) = 1
        /\ call.out.status = "per-team-latest-league" =>
               Len(call.out.league_scope) = 2 /\ Cardinality(ScopeDivs) = 2
        /\ ScopeCoversLeague

\* C30 amended: as claimed, except that under "per-team-latest-league" the two
\* entries with distinct codes are there when both teams resolve to a league;
\* when only one does, league_scope has the one entry of that team's league.
C30_StatusAgreesWithScopeAmended ==
    call.op = "build_match_insights" =>
        /\ call.out.league_scope = <<>> <=> call.out.status = "no-league-scope"
        /\ call.out.status \in {"event-league-scope", "same-latest-league"} =>
               Len(call.out.league_scope) = 1
        /\ call.out.status = "per-team-latest-league" =>
               LET H == LatestDivs(call.a)
                   A == LatestDivs(call.b)
                   scope == call.out.league_scope
               IN /\ H # {} \/ A # {}
                  /\ (H # {} /\ A # {}) => Len(scope) = 2 /\ Cardinality(ScopeDivs) = 2
                  /\ (H # {} /\ A = {}) =>
                         Len(scope) = 1 /\ scope[1].type = "home" /\ scope[1].div \in H
                  /\ (H = {} /\ A # {}) =>
                         Len(scope) = 1 /\ scope[1].type = "away" /\ scope[1].div \in A
        /\ ScopeCoversLeague

\* only the home team has a league in its history: one entry, and the league
\* has more rows than the window of the call
C30_Witness ==
    /\ call.op = "build_match_insights"
    /\ call.out.status = "per-team-latest-league"
    /\ Len(call.out.league_scope) = 1
    /\ call.w = Some(1)
    /\ call.out.league_scope[1].n = 2

\* C23: whenever no call is between its two stores, the cached snapshot is the
\* dataset that was written at the cached modification time; and a call that
\* is served from the cache gets the dataset written at the modification time
\* it has just read from the file.
C23_SnapshotMatchesFingerprint ==
    /\ (cache.df # None /\ cache.mtime # None
        /\ \A t \in Threads : pc[t] # "store_mtime") =>
           cache.df = Some(ContentAt(cache.mtime[1]))
    /\ \A t \in Threads :
           (pc[t] = "done" /\ ldf[t] = None /\ ret[t] # Some(EmptyDf)) =>
               ret[t] = Some(ContentAt(lst[t]))

\* C24: once no request is in flight INSIGHTS_DEBUG_EXAMPLES is unset again, as
\* it was before the first request, and a request made with debug_examples
\* false has computed no debug examples.
C24_DebugToggleDoesNotLeak ==
    /\ (\A r \in Requests : req[r].pc = "idle") => environ = None
    /\ \A r \in Requests :
           ~req[r].debug_examples => ~req[r].home_examples /\ ~req[r].away_examples

====
